---- MODULE Spec2Model ----
(***************************************************************************)
(* Model of the mcp-google-ads gateway (src/app.py): protocol-version     *)
(* negotiation and the JSON-RPC dispatcher of POST / (single envelopes    *)
(* and batches), with the MCP-Protocol-Version response header.           *)
(*                                                                         *)
(* Protocol versions are strings read character by character; Python's   *)
(* str comparison is the code-point lexicographic order StrLeq.           *)
(***************************************************************************)
EXTENDS Integers, Sequences, FiniteSets, TLC

VARIABLES
    supported,      \* SUPPORTED_MCP_VERSIONS (module constant of the process)
    sharedKey,      \* MCP_SHARED_KEY ("" when not configured)
    isoBasic,       \* whether the build's date.fromisoformat also takes YYYYMMDD
    pc,             \* position of the rpc() handler for the current exchange
    reqHeaders,     \* request.headers of the current exchange
    body,           \* the request body (invalid JSON, one value, or an array)
    idx,            \* batch loop: number of entries already handled
    responses,      \* batch loop: the `responses` list
    headers,        \* rpc(): the `headers` dict handed to the response
    stateProto,     \* request.state.mcp_protocol_version (None when unset)
    httpResp,       \* the response rpc() returned (None before it returns)
    finalProto,     \* MCP-Protocol-Version of the HTTP response after the middleware
    ads,            \* the running _ads_call: loop counter, calls and sleeps so far, outcome
    srv,            \* the event loop of the server: its requests and which one runs
    handled,        \* number of _handle_single_rpc calls made in this exchange
    invoked,        \* the tool functions called in this exchange, in order
    staticLookup,   \* _STATIC_LOOKUP (normalized name -> customer id)
    loginCustomerId,\* LOGIN_CUSTOMER_ID ("" when not configured)
    accountCache,   \* _ACCOUNT_CACHE (normalized name -> customer id)
    lookups,        \* upstream hierarchy lookups issued since the process started
    rreq,           \* resolver harness: the arguments of the last resolve call
    rres,           \* resolver harness: what the last resolve call did
    nreq,           \* negotiation harness: the requested version string
    nres            \* negotiation harness: the outcome of validate + negotiate

vars == <<supported, sharedKey, isoBasic, pc, reqHeaders, body, idx, responses,
          headers, stateProto, httpResp, finalProto, handled, invoked, staticLookup,
          loginCustomerId, accountCache, lookups, rreq, rres, nreq, nres, ads, srv>>

config == <<supported, sharedKey, isoBasic, staticLookup, loginCustomerId>>
exchange == <<pc, reqHeaders, body, idx, responses, headers, stateProto,
              httpResp, finalProto, handled, invoked>>
process == <<accountCache, lookups>>
harness == <<nreq, nres, rreq, rres, ads, srv>>

(***************************************************************************)
(* Bounds                                                                  *)
(***************************************************************************)
\* Largest number of entries in a batch body.
MaxBatch == 2

(***************************************************************************)
(* Python values                                                           *)
(***************************************************************************)
\* Python's None, and a key that a mapping does not hold.
None == "None"
Absent == "Absent"

\* Characters of the strings the code inspects, and their code points.
Char(s, i) == SubSeq(s, i, i)

IsDigit(c) == c \in {"0","1","2","3","4","5","6","7","8","9"}

DigitVal(c) ==
    CASE c = "0" -> 0 [] c = "1" -> 1 [] c = "2" -> 2 [] c = "3" -> 3 [] c = "4" -> 4
      [] c = "5" -> 5 [] c = "6" -> 6 [] c = "7" -> 7 [] c = "8" -> 8 [] c = "9" -> 9

\* ord(c) for the characters that occur in the version strings of the model.
Ord(c) ==
    IF IsDigit(c) THEN 48 + DigitVal(c)
    ELSE CASE c = "-" -> 45
           [] c = "a" -> 97
           [] c = "d" -> 100
           [] c = "e" -> 101
           [] c = "n" -> 110
           [] c = "o" -> 111
           [] c = "t" -> 116

\* Python `a <= b` on str: lexicographic by code point, a proper prefix is smaller.
RECURSIVE StrLeq(_, _)
StrLeq(a, b) ==
    IF Len(a) = 0 THEN TRUE
    ELSE IF Len(b) = 0 THEN FALSE
    ELSE IF Ord(Head(a)) < Ord(Head(b)) THEN TRUE
    ELSE IF Ord(Head(a)) > Ord(Head(b)) THEN FALSE
    ELSE StrLeq(Tail(a), Tail(b))

\* int() of a run of digit characters.
RECURSIVE DigitsVal(_)
DigitsVal(s) ==
    IF Len(s) = 0 THEN 0
    ELSE 10 * DigitsVal(SubSeq(s, 1, Len(s) - 1)) + DigitVal(Char(s, Len(s)))

AllDigits(s) == \A i \in 1..Len(s) : IsDigit(Char(s, i))

IsLeap(y) == (y % 4 = 0) /\ ((y % 100 # 0) \/ (y % 400 = 0))

DaysInMonth(y, m) ==
    IF m = 2 THEN (IF IsLeap(y) THEN 29 ELSE 28)
    ELSE IF m \in {4, 6, 9, 11} THEN 30 ELSE 31

ValidYMD(y, m, d) ==
    /\ y \in 1..9999
    /\ m \in 1..12
    /\ d \in 1..DaysInMonth(y, m)

\* The fixed-width extended form YYYY-MM-DD.
IsExtendedDate(s) ==
    /\ Len(s) = 10
    /\ Char(s, 5) = "-" /\ Char(s, 8) = "-"
    /\ AllDigits(SubSeq(s, 1, 4)) /\ AllDigits(SubSeq(s, 6, 7)) /\ AllDigits(SubSeq(s, 9, 10))
    /\ ValidYMD(DigitsVal(SubSeq(s, 1, 4)), DigitsVal(SubSeq(s, 6, 7)), DigitsVal(SubSeq(s, 9, 10)))

\* The basic form YYYYMMDD, which date.fromisoformat takes from Python 3.11 on.
IsBasicDate(s) ==
    /\ Len(s) = 8
    /\ AllDigits(s)
    /\ ValidYMD(DigitsVal(SubSeq(s, 1, 4)), DigitsVal(SubSeq(s, 5, 6)), DigitsVal(SubSeq(s, 7, 8)))

\* <<year, month, day>> of a YYYY-MM-DD string.
DateOf(s) == <<DigitsVal(SubSeq(s, 1, 4)), DigitsVal(SubSeq(s, 6, 7)), DigitsVal(SubSeq(s, 9, 10))>>

\* Calendar order on <<year, month, day>>.
DateLeq(a, b) ==
    \/ a[1] < b[1]
    \/ a[1] = b[1] /\ a[2] < b[2]
    \/ a[1] = b[1] /\ a[2] = b[2] /\ a[3] <= b[3]

(***************************************************************************)
(* Protocol negotiation                                                    *)
(***************************************************************************)
\* datetime.date.fromisoformat(version) does not raise.
FromIsoFormatOk(version, basic) ==
    IsExtendedDate(version) \/ (basic /\ IsBasicDate(version))

\* _validate_protocol_version_string: "ok" or the ValueError it raises.
_validate_protocol_version_string(version, basic) ==
    IF FromIsoFormatOk(version, basic) THEN "ok" ELSE "ValueError"

\* Mutant: the first element is taken for the newest.
LatestIsFirst(sup) == sup[1]

_latest_supported_protocol(sup) == sup[Len(sup)]

\* The loop `for version in reversed(SUPPORTED_MCP_VERSIONS)` from position i down.
RECURSIVE NegotiateFrom(_, _, _)
NegotiateFrom(sup, requested, i) ==
    IF i = 0 THEN None
    ELSE IF StrLeq(sup[i], requested) THEN sup[i]
    ELSE NegotiateFrom(sup, requested, i - 1)

\* Mutant: the list is scanned oldest first.
RECURSIVE NegotiateOldestFirst(_, _, _)
NegotiateOldestFirst(sup, requested, i) ==
    IF i > Len(sup) THEN None
    ELSE IF StrLeq(sup[i], requested) THEN sup[i]
    ELSE NegotiateOldestFirst(sup, requested, i + 1)

NegotiateMutant(sup, requested) ==
    IF requested = None THEN _latest_supported_protocol(sup)
    ELSE NegotiateOldestFirst(sup, requested, 1)

_negotiate_protocol_version(sup, requested) ==
    IF requested = None THEN _latest_supported_protocol(sup)
    ELSE NegotiateFrom(sup, requested, Len(sup))

\* Mutant: a request older than every supported version is given the oldest one.
NegotiationNeverFails(sup, raw_proto, basic) ==
    IF raw_proto # None /\ Len(raw_proto) > 0
          /\ _validate_protocol_version_string(raw_proto, basic) = "ValueError"
    THEN "InvalidFormat"
    ELSE LET requested == IF raw_proto # None /\ Len(raw_proto) > 0 THEN raw_proto ELSE None
             negotiated == _negotiate_protocol_version(sup, requested)
         IN  IF negotiated = None THEN sup[1] ELSE negotiated

\* Lines 1189-1203 of the initialize branch: the outcome of validating and
\* negotiating raw_proto. A falsy raw_proto (None or "") is not validated.
NegotiationOutcome(sup, raw_proto, basic) ==
    IF raw_proto # None /\ Len(raw_proto) > 0
          /\ _validate_protocol_version_string(raw_proto, basic) = "ValueError"
    THEN "InvalidFormat"
    ELSE LET requested == IF raw_proto # None /\ Len(raw_proto) > 0 THEN raw_proto ELSE None
             negotiated == _negotiate_protocol_version(sup, requested)
         IN  IF negotiated = None THEN "Unsupported" ELSE negotiated

(***************************************************************************)
(* JSON values and envelopes                                               *)
(***************************************************************************)
\* A JSON value of a key: its type and its literal text. "absent" is a key
\* the mapping does not hold.
JAbsent == [t |-> "absent", v |-> ""]
JNull == [t |-> "null", v |-> ""]
JStr(s) == [t |-> "str", v |-> s]
JInt(s) == [t |-> "int", v |-> s]
JList(s) == [t |-> "list", v |-> s]

\* dict.get(key): None for a missing key.
Get(j) == IF j.t = "absent" THEN JNull ELSE j

\* Python truthiness, as `x or default` reads it.
Truthy(j) ==
    CASE j.t = "absent" -> FALSE
      [] j.t = "null" -> FALSE
      [] j.t = "str" -> Len(j.v) > 0
      [] j.t = "int" -> j.v # "0"
      [] j.t = "list" -> j.v # "[]"

\* str.lower(), character by character.
LowerChar(c) ==
    CASE c = "A" -> "a" [] c = "B" -> "b" [] c = "C" -> "c" [] c = "D" -> "d"
      [] c = "E" -> "e" [] c = "F" -> "f" [] c = "G" -> "g" [] c = "H" -> "h"
      [] c = "I" -> "i" [] c = "J" -> "j" [] c = "K" -> "k" [] c = "L" -> "l"
      [] c = "M" -> "m" [] c = "N" -> "n" [] c = "O" -> "o" [] c = "P" -> "p"
      [] c = "Q" -> "q" [] c = "R" -> "r" [] c = "S" -> "s" [] c = "T" -> "t"
      [] c = "U" -> "u" [] c = "V" -> "v" [] c = "W" -> "w" [] c = "X" -> "x"
      [] c = "Y" -> "y" [] c = "Z" -> "z"
      [] OTHER -> c

RECURSIVE LowerStr(_)
LowerStr(s) == IF Len(s) = 0 THEN "" ELSE LowerChar(Head(s)) \o LowerStr(Tail(s))

\* TOOLS (names, in registration order), PUBLIC_TOOLS and the keys of TOOL_IMPLS.
TOOLS ==
    <<"fetch_account_tree", "fetch_metrics", "fetch_campaign_summary",
      "list_recommendations", "fetch_search_terms", "fetch_change_history",
      "fetch_budget_pacing", "list_resources", "resolve_customer",
      "ping", "debug_login_header", "echo_short", "noop_ok">>

PUBLIC_TOOLS ==
    {"ping", "noop_ok", "debug_login_header", "echo_short",
     "list_resources", "resolve_customer",
     "fetch_account_tree", "fetch_metrics", "fetch_campaign_summary",
     "list_recommendations", "fetch_search_terms", "fetch_change_history",
     "fetch_budget_pacing"}

TOOL_IMPLS == {TOOLS[i] : i \in 1..Len(TOOLS)}

\* Error codes of the dispatcher.
InvalidRequest == -32600
MethodNotFound == -32601
InvalidParams == -32602
Unauthorized == -32001
ToolFailure == -32000
DispatchError == -32098

\* What _handle_single_rpc returns for a notification: no response object.
NoResp == [kind |-> "none"]

\* The `data=None` default of _build_jsonrpc_error.
NoData == [t |-> "None", v |-> ""]

_build_jsonrpc_error(_id, code, message, data) ==
    IF data = NoData
    THEN [kind |-> "error", jsonrpc |-> "2.0", id |-> _id, code |-> code, message |-> message]
    ELSE [kind |-> "error", jsonrpc |-> "2.0", id |-> _id, code |-> code, message |-> message,
          data |-> data]

\* {"jsonrpc": "2.0", "id": _id, "result": result}
ResultEnvelope(_id, result) ==
    [kind |-> "result", jsonrpc |-> "2.0", id |-> _id, result |-> result]

\* Mutant: the error member never carries the detail.
McpErrWithoutDetail(message, data) ==
    [code |-> -32000, message |-> message, data |-> [t |-> "obj", v |-> "{}"]]

\* mcp_err(message, data): the error member {"code", "message", "data"}; a
\* falsy data (an empty parse result) is replaced by {}.
mcp_err(message, data) ==
    [code |-> ToolFailure, message |-> message,
     data |-> IF data.t = "empty" THEN [t |-> "obj", v |-> "{}"] ELSE data]

(***************************************************************************)
(* Client name -> customer id resolution                                   *)
(***************************************************************************)
\* The characters _norm_key keeps, in code-point order.
KeyAlphabet == "0123456789abcdefghijklmnopqrstuvwxyz"

KeyChars == {Char(KeyAlphabet, i) : i \in 1..Len(KeyAlphabet)}

IsKeyChar(c) == c \in KeyChars

KeyOrd(c) == CHOOSE i \in 1..Len(KeyAlphabet) : Char(KeyAlphabet, i) = c

\* Python `a < b` on two normalized keys.
RECURSIVE KeyLess(_, _)
KeyLess(a, b) ==
    IF Len(b) = 0 THEN FALSE
    ELSE IF Len(a) = 0 THEN TRUE
    ELSE IF KeyOrd(Char(a, 1)) < KeyOrd(Char(b, 1)) THEN TRUE
    ELSE IF KeyOrd(Char(a, 1)) > KeyOrd(Char(b, 1)) THEN FALSE
    ELSE KeyLess(Tail(a), Tail(b))

\* re.sub(r"[^0-9]", "", s): the digits of s, in order.
RECURSIVE DigitsOf(_)
DigitsOf(s) ==
    IF Len(s) = 0 THEN ""
    ELSE (IF IsDigit(Char(s, 1)) THEN Char(s, 1) ELSE "") \o DigitsOf(Tail(s))

\* str.replace("-", "")
RECURSIVE RemoveDashes(_)
RemoveDashes(s) ==
    IF Len(s) = 0 THEN ""
    ELSE (IF Char(s, 1) = "-" THEN "" ELSE Char(s, 1)) \o RemoveDashes(Tail(s))

\* str.strip() for the blanks of the model's inputs.
RECURSIVE Strip(_)
Strip(s) ==
    IF Len(s) = 0 THEN ""
    ELSE IF Char(s, 1) = " " THEN Strip(Tail(s))
    ELSE IF Char(s, Len(s)) = " " THEN Strip(SubSeq(s, 1, Len(s) - 1))
    ELSE s

\* _norm_key: casefold, then drop everything outside [a-z0-9].
RECURSIVE KeepKeyChars(_)
KeepKeyChars(s) ==
    IF Len(s) = 0 THEN ""
    ELSE (IF IsKeyChar(Char(s, 1)) THEN Char(s, 1) ELSE "") \o KeepKeyChars(Tail(s))

_norm_key(s) == KeepKeyChars(LowerStr(s))

\* re.fullmatch(r"\d{8,20}", digits) on a string of digits.
LooksLikeId(digits) == AllDigits(digits) /\ Len(digits) >= 8 /\ Len(digits) <= 20

\* Mappings with str keys are sets of entries with distinct keys.
HasKey(map, k) == \E e \in map : e.key = k
Entry(map, k) == CHOOSE e \in map : e.key = k
Keys(map) == {e.key : e \in map}

\* The length of the common run of a from i and b from j.
RECURSIVE RunLength(_, _, _, _)
RunLength(a, b, i, j) ==
    IF i > Len(a) \/ j > Len(b) \/ Char(a, i) # Char(b, j) THEN 0
    ELSE 1 + RunLength(a, b, i + 1, j + 1)

\* difflib.SequenceMatcher.find_longest_match without junk: the longest
\* block a[i..i+k-1] = b[j..j+k-1], the earliest in a, then the earliest in
\* b. The candidates are the common runs that cannot be extended to the left.
LongestMatch(a, b) ==
    LET starts == {ij \in (1..Len(a)) \X (1..Len(b)) :
                     /\ Char(a, ij[1]) = Char(b, ij[2])
                     /\ ij[1] = 1 \/ ij[2] = 1 \/ Char(a, ij[1] - 1) # Char(b, ij[2] - 1)}
        blocks == {<<ij[1], ij[2], RunLength(a, b, ij[1], ij[2])>> : ij \in starts}
    IN  IF blocks = {} THEN <<1, 1, 0>>
        ELSE CHOOSE blk \in blocks : \A o \in blocks :
                \/ blk[3] > o[3]
                \/ blk[3] = o[3] /\ blk[1] < o[1]
                \/ blk[3] = o[3] /\ blk[1] = o[1] /\ blk[2] <= o[2]

\* The number of matched characters of get_matching_blocks.
RECURSIVE MatchCount(_, _)
MatchCount(a, b) ==
    IF Len(a) = 0 \/ Len(b) = 0 THEN 0
    ELSE LET blk == LongestMatch(a, b)
             i == blk[1]
             j == blk[2]
             k == blk[3]
         IN  IF k = 0 THEN 0
             ELSE k + MatchCount(SubSeq(a, 1, i - 1), SubSeq(b, 1, j - 1))
                    + MatchCount(SubSeq(a, i + k, Len(a)), SubSeq(b, j + k, Len(b)))

\* SequenceMatcher(a=candidate, b=word).ratio() as the fraction <<2M, T>>
\* (1.0 when both are empty).
Ratio(candidate, word) ==
    IF Len(candidate) + Len(word) = 0 THEN <<1, 1>>
    ELSE <<2 * MatchCount(candidate, word), Len(candidate) + Len(word)>>

\* SequenceMatcher.real_quick_ratio(): the upper bound on ratio() from the
\* lengths alone, which get_close_matches tests first.
RealQuickRatio(candidate, word) ==
    IF Len(candidate) + Len(word) = 0 THEN <<1, 1>>
    ELSE <<2 * (IF Len(candidate) < Len(word) THEN Len(candidate) ELSE Len(word)),
           Len(candidate) + Len(word)>>

\* ratio >= 0.8
ClearsCutoff(r) == 10 * r[1] >= 8 * r[2]

\* (score, x) < (score', x') as heapq.nlargest compares the pairs.
ScoredLess(r1, x1, r2, x2) ==
    \/ r1[1] * r2[2] < r2[1] * r1[2]
    \/ r1[1] * r2[2] = r2[1] * r1[2] /\ KeyLess(x1, x2)

\* get_close_matches(word, candidates, n=1, cutoff=0.8): the best match, or None.
get_close_matches(word, candidates) ==
    LET near == {x \in candidates : ClearsCutoff(RealQuickRatio(x, word))}
        scored == {<<Ratio(x, word), x>> : x \in near}
        close == {p \in scored : ClearsCutoff(p[1])}
    IN  IF close = {} THEN None
        ELSE (CHOOSE p \in close :
                \A q \in close : q = p \/ ScoredLess(q[1], q[2], p[1], p[2]))[2]

\* What the upstream hierarchy query does when it is asked (the collaborator
\* decides): client construction fails, the query fails, iterating the rows
\* fails part-way, or the rows arrive.
HierFails(kind) == [kind |-> kind, rows |-> <<>>]
HierRows(rows) == [kind |-> "rows", rows |-> rows]

\* The loop of _refresh_account_cache over the rows: later rows replace
\* earlier rows of the same normalized name; rows without an id are skipped.
RECURSIVE BuildLocal(_, _)
BuildLocal(rows, local) ==
    IF rows = <<>> THEN local
    ELSE LET r == Head(rows)
             k == _norm_key(r.name)
         IN  BuildLocal(Tail(rows),
                IF Len(r.cid) = 0 THEN local
                ELSE {e \in local : e.key # k}
                        \cup {[key |-> k, id |-> RemoveDashes(r.cid), raw |-> r.name]})

\* The outcome of a refresh: the cache after the call, whether the upstream
\* query was issued, whether the failure warning was logged, and whether an
\* exception left the function.
Refreshed(cache, issued) ==
    [cache |-> cache, issued |-> issued, logged |-> FALSE, raised |-> FALSE]
RefreshFailed(cache, issued) ==
    [cache |-> cache, issued |-> issued, logged |-> TRUE, raised |-> FALSE]

\* Mutant: a failure of the hierarchy lookup leaves the function.
RefreshPropagates(root_mcc, cache, hier) ==
    IF root_mcc = None \/ Len(root_mcc) = 0 THEN Refreshed(cache, FALSE)
    ELSE IF hier.kind = "rows" THEN Refreshed(BuildLocal(hier.rows, {}), TRUE)
    ELSE [cache |-> cache, issued |-> hier.kind # "NoClient", logged |-> FALSE, raised |-> TRUE]

\* Mutant: the rows read before the iteration failed are stored.
RefreshKeepsPartialRows(root_mcc, cache, hier) ==
    IF root_mcc = None \/ Len(root_mcc) = 0 THEN Refreshed(cache, FALSE)
    ELSE IF hier.kind = "NoClient" THEN RefreshFailed(cache, FALSE)
    ELSE IF hier.kind = "QueryFails" THEN RefreshFailed(cache, TRUE)
    ELSE IF hier.kind = "IterFails" THEN RefreshFailed(BuildLocal(hier.rows, {}), TRUE)
    ELSE Refreshed(BuildLocal(hier.rows, {}), TRUE)

\* _refresh_account_cache(root_mcc): nothing without a root; every exception
\* of the try block (client construction, the query, the iteration of the
\* rows) is caught and logged and leaves the cache as it was (hier.rows are,
\* for "IterFails", the rows read before the failure); otherwise the cache is
\* replaced by the rows' entries.
_refresh_account_cache(root_mcc, cache, hier) ==
    IF root_mcc = None \/ Len(root_mcc) = 0 THEN Refreshed(cache, FALSE)
    ELSE CASE hier.kind = "NoClient" -> RefreshFailed(cache, FALSE)
           [] hier.kind = "QueryFails" -> RefreshFailed(cache, TRUE)
           [] hier.kind = "IterFails" -> RefreshFailed(cache, TRUE)
           [] hier.kind = "rows" -> Refreshed(BuildLocal(hier.rows, {}), TRUE)

\* Before the first resolution of the process: no call, no outcome.
NoCall == [name |-> ""]
NotResolved == [step |-> "idle"]

\* The outcome of a resolution: the value returned (None for not found), the
\* step that answered, and what the refresh it ran (rf) did.
Resolved(result, step, rf) ==
    [result |-> result, step |-> step, cache |-> rf.cache, issued |-> rf.issued,
     logged |-> rf.logged, raised |-> rf.raised]

\* Mutant: the cache is refreshed whenever a root is known.
RefreshesAlways(cache, root) == Len(root) > 0

\* not _ACCOUNT_CACHE and (root_mcc or LOGIN_CUSTOMER_ID)
NeedsRefresh(cache, root) == cache = {} /\ Len(root) > 0

\* Mutant: the cache is consulted before the static table.
ResolveCacheFirst(name_or_id, root_mcc, static, login, cache, hier) ==
    IF Len(name_or_id) = 0
    THEN Resolved(None, "empty", Refreshed(cache, FALSE))
    ELSE
    LET s == Strip(name_or_id)
        digits == DigitsOf(s)
        key == _norm_key(s)
        root == IF root_mcc # None /\ Len(root_mcc) > 0 THEN root_mcc ELSE login
        refresh == IF NeedsRefresh(cache, root)
                   THEN _refresh_account_cache(root, cache, hier)
                   ELSE Refreshed(cache, FALSE)
        cache2 == refresh.cache
    IN  IF LooksLikeId(digits)
        THEN Resolved(digits, "id", Refreshed(cache, FALSE))
        ELSE IF HasKey(cache2, key)
        THEN Resolved(Entry(cache2, key).id, "cache", refresh)
        ELSE IF HasKey(static, key)
        THEN Resolved(Entry(static, key).id, "static", refresh)
        ELSE Resolved(None, "none", refresh)

\* _resolve_customer_id(name_or_id, root_mcc): the value returned, the step
\* that answered, the cache after the call, and whether the upstream hierarchy
\* query was issued.
_resolve_customer_id(name_or_id, root_mcc, static, login, cache, hier) ==
    IF Len(name_or_id) = 0
    THEN Resolved(None, "empty", Refreshed(cache, FALSE))
    ELSE
    LET s == Strip(name_or_id)
        digits == DigitsOf(s)
        key == _norm_key(s)
        root == IF root_mcc # None /\ Len(root_mcc) > 0 THEN root_mcc ELSE login
        refresh == IF NeedsRefresh(cache, root)
                   THEN _refresh_account_cache(root, cache, hier)
                   ELSE Refreshed(cache, FALSE)
        cache2 == refresh.cache
        m == get_close_matches(key, Keys(static) \cup Keys(cache2))
    IN  IF LooksLikeId(digits)
        THEN Resolved(digits, "id", Refreshed(cache, FALSE))
        ELSE IF HasKey(static, key)
        THEN Resolved(Entry(static, key).id, "static", Refreshed(cache, FALSE))
        ELSE IF HasKey(cache2, key)
        THEN Resolved(Entry(cache2, key).id, "cache", refresh)
        ELSE IF m # None
        THEN Resolved(IF HasKey(static, m) /\ Len(Entry(static, m).id) > 0
                      THEN Entry(static, m).id
                      ELSE IF HasKey(cache2, m) /\ Len(Entry(cache2, m).id) > 0
                      THEN Entry(cache2, m).id
                      ELSE None,
                      "fuzzy", refresh)
        ELSE Resolved(None, "none", refresh)

(***************************************************************************)
(* _ads_call: the retrying invoker of upstream calls                       *)
(***************************************************************************)
\* Mutant: PERMISSION_DENIED is retried as well.
TransientsWithDenied ==
    {"UNAVAILABLE", "DEADLINE_EXCEEDED", "INTERNAL", "RESOURCE_EXHAUSTED", "ABORTED",
     "PERMISSION_DENIED"}

\* TRANSIENTS = {...}
TRANSIENTS == {"UNAVAILABLE", "DEADLINE_EXCEEDED", "INTERNAL", "RESOURCE_EXHAUSTED", "ABORTED"}

\* attempts=5
DefaultAttempts == 5

\* What fn() raises: a GoogleAdsException with the status name of
\* e.error.code() (Absent when the exception has no `error` attribute), its
\* request_id (None when it has none) and its failure (present or not, with
\* its errors), or an exception of another class.
NoFailure == [present |-> FALSE, errors |-> <<>>]
FailureOf(errors) == [present |-> TRUE, errors |-> errors]
GoogleAdsException(status, rid, failure) ==
    [class |-> "GoogleAdsException", status |-> status, rid |-> rid, failure |-> failure]
OtherException(class) == [class |-> class, status |-> Absent, rid |-> None, failure |-> NoFailure]
NoException == OtherException("none")

\* status = e.error.code().name if hasattr(e, "error") else "UNKNOWN"
StatusOf(e) == IF e.status = Absent THEN "UNKNOWN" ELSE e.status

\* Mutant: the backoff is not capped.
BackoffUncapped(i, jitter) == 10 * 2^i + jitter

\* min(2**i, 20) + random.random(), in tenths of a second; jitter is the
\* value of random.random() in tenths (0..9).
Backoff(i, jitter) == 10 * (IF 2^i < 20 THEN 2^i ELSE 20) + jitter

\* The details mapping of the terminal error (lines 351-359).
Details(e) ==
    LET errors == IF e.failure.present THEN e.failure.errors ELSE <<>>
    IN  IF StatusOf(e) = "PERMISSION_DENIED"
        THEN [status |-> StatusOf(e), request_id |-> e.rid, errors |-> errors,
              hint |-> "Set login_customer_id to your MCC (e.g. 9000159936) or configure GOOGLE_ADS_LOGIN_CUSTOMER_ID on the server."]
        ELSE [status |-> StatusOf(e), request_id |-> e.rid, errors |-> errors]

\* No _ads_call is running.  `last` is what the latest fn() raised.
IdleAds ==
    [pc |-> "idle", attempts |-> 0, i |-> 0, events |-> <<>>, last |-> NoException,
     outcome |-> [kind |-> "none"]]

\* What _ads_call did so far, in order: the calls of fn (attempt number i and
\* what fn did: "ok", the status of its GoogleAdsException, or the class of
\* another exception) and the sleeps (after attempt i, for so many tenths).
CallEvent(i, did) == [ev |-> "call", i |-> i, did |-> did, tenths |-> 0]
SleepEvent(i, tenths) == [ev |-> "sleep", i |-> i, did |-> "sleep", tenths |-> tenths]

\* Mutant: every exception is caught as a GoogleAdsException.
CaughtAlways(e) == TRUE

\* except GoogleAdsException as e
Caught(e) == e.class = "GoogleAdsException"

\* Mutant: a failure is never retried.
NeverRetries(a) == FALSE

\* Mutant: the last attempt is retried too.
AttemptsLeftInclusive(a) == a.i <= a.attempts

\* i < attempts
AttemptsLeft(a) == a.i < a.attempts

\* One iteration of the for loop whose fn() raised e (lines 345-360): an
\* exception of another class leaves _ads_call as it is; a transient status
\* with attempts left sleeps and continues; every other GoogleAdsException
\* becomes RuntimeError(json.dumps(details)).
AfterRaise(a, e, jitter) ==
    LET called == Append(a.events,
                         CallEvent(a.i, IF e.class = "GoogleAdsException" THEN StatusOf(e)
                                        ELSE e.class))
    IN  IF ~Caught(e)
        THEN [a EXCEPT !.pc = "raised", !.events = called, !.last = e,
                       !.outcome = [kind |-> "propagated", class |-> e.class]]
        ELSE IF StatusOf(e) \in TRANSIENTS /\ AttemptsLeft(a)
        THEN [a EXCEPT !.events = Append(called, SleepEvent(a.i, Backoff(a.i, jitter))),
                       !.last = e, !.i = a.i + 1]
        ELSE [a EXCEPT !.pc = "raised", !.events = called, !.last = e,
                       !.outcome = [kind |-> "RuntimeError", details |-> Details(e)]]

\* No request has reached the event loop.
IdleServe ==
    [loop |-> 0, root |-> None, hier |-> [kind |-> "unasked", rows |-> <<>>], tasks |-> <<>>]

\* range(1, attempts+1) has no element left: the function body ends, which
\* returns None.
AfterLoopEnds(a) ==
    [a EXCEPT !.pc = "returned", !.outcome = [kind |-> "return", value |-> None]]

\* One iteration of the for loop whose fn() returned (line 344).
AfterReturnOf(a, value) ==
    [a EXCEPT !.pc = "returned", !.events = Append(a.events, CallEvent(a.i, "ok")),
              !.outcome = [kind |-> "return", value |-> value]]

(***************************************************************************)
(* Tool functions                                                          *)
(***************************************************************************)
\* What calling a tool function does: it returns data, raises ValueError, or
\* raises another exception whose text json.loads parses (parsed.t is "obj",
\* "num", or "empty" for a falsy value) or does not parse (parsed.t = "fail").
Returned(data) == [out |-> "return", data |-> data, text |-> "", parsed |-> [t |-> "fail", v |-> ""]]
RaisedValueError(text) == [out |-> "ValueError", data |-> "", text |-> text, parsed |-> [t |-> "fail", v |-> ""]]
RaisedOther(text, parsed) == [out |-> "Exception", data |-> "", text |-> text, parsed |-> parsed]

\* tool_echo_short: args.get("msg") on the arguments value.
tool_echo_short(obj) ==
    IF obj.atype = "list" THEN RaisedOther("'list' object has no attribute 'get'", [t |-> "fail", v |-> ""])
    ELSE LET msg == IF obj.atype = "obj" THEN Get(obj.msg) ELSE JNull
         IN  IF Truthy(msg) /\ msg.t # "str"
             THEN RaisedOther("'int' object has no attribute 'strip'", [t |-> "fail", v |-> ""])
             ELSE IF ~Truthy(msg) THEN RaisedValueError("msg required")
             ELSE Returned(msg.v)

\* A tool that queries the upstream: the collaborator decides the outcome
\* (obj.up): a result, a ValueError (bad argument), the RuntimeError of
\* _ads_call whose text is the JSON of the details, or any other exception:
\* missing credentials, an exception whose text is a JSON number, or one whose
\* text is the JSON null.
UpstreamTool(obj) ==
    CASE obj.up = "ok" -> Returned("rows")
      [] obj.up = "ValueError" -> RaisedValueError("Could not resolve client")
      [] obj.up = "UpstreamError" ->
            RaisedOther("{\"status\": \"PERMISSION_DENIED\"}", [t |-> "obj", v |-> "{\"status\": \"PERMISSION_DENIED\"}"])
      [] obj.up = "RuntimeError" ->
            RaisedOther("Missing required env", [t |-> "fail", v |-> ""])
      [] obj.up = "NumberText" -> RaisedOther("503", [t |-> "num", v |-> "503"])
      [] obj.up = "NullText" -> RaisedOther("null", [t |-> "empty", v |-> "null"])

\* A tool outcome with what the call did to the process: the account cache
\* after it, whether the upstream hierarchy query was issued (issued) and
\* whether the tool's own upstream query was issued (queried).
Eff(r, cache, issued, queried) ==
    [out |-> r.out, data |-> r.data, text |-> r.text, parsed |-> r.parsed,
     cache |-> cache, issued |-> issued, queried |-> queried]

\* args.get(k) after `args = params.get("arguments") or {}`.
Arg(obj, j) == IF obj.atype = "obj" THEN Get(j) ELSE JNull

\* _ensure_customer_id_arg(args, root_mcc=login): customer_id when given, else
\* the resolution of customer; ValueError when neither gives an identifier.
_ensure_customer_id_arg(obj, root_mcc, static, login, cache, hier) ==
    LET cid == Arg(obj, obj.cid)
        cname == Arg(obj, obj.cname)
        Resolving(res) ==
            IF res.result = None \/ Len(res.result) = 0
            THEN [ok |-> FALSE, value |-> "",
                  text |-> "Could not resolve client '" \o cname.v
                             \o "' to a Google Ads customer ID",
                  cache |-> res.cache, issued |-> res.issued, resolved |-> TRUE]
            ELSE [ok |-> TRUE, value |-> res.result, text |-> "",
                  cache |-> res.cache, issued |-> res.issued, resolved |-> TRUE]
    IN  IF Truthy(cid)
        THEN [ok |-> TRUE, value |-> RemoveDashes(cid.v), text |-> "",
              cache |-> cache, issued |-> FALSE, resolved |-> FALSE]
        ELSE IF Truthy(cname)
        THEN Resolving(_resolve_customer_id(cname.v, root_mcc, static, login, cache, hier))
        ELSE [ok |-> FALSE, value |-> "",
              text |-> "Missing required param: customer_id (or provide 'customer'/'customer_name')",
              cache |-> cache, issued |-> FALSE, resolved |-> FALSE]

\* `(args.get("login_customer_id") or LOGIN_CUSTOMER_ID or "").replace("-", "") or None`
LoginOf(obj, login) ==
    LET l == RemoveDashes(IF Truthy(Arg(obj, obj.login)) THEN obj.login.v ELSE login)
    IN  IF Len(l) = 0 THEN None ELSE l

\* tool_fetch_metrics and the other tools that start with the same two
\* lines: login, then _ensure_customer_id_arg, then the rest of the tool,
\* whose outcome the collaborator decides (obj.up).
tool_fetch_metrics(obj, static, login, cache) ==
    IF obj.atype = "list"
    THEN Eff(RaisedOther("'list' object has no attribute 'get'", [t |-> "fail", v |-> ""]),
             cache, FALSE, FALSE)
    ELSE IF Truthy(Arg(obj, obj.login)) /\ obj.login.t # "str"
    THEN Eff(RaisedOther("'int' object has no attribute 'replace'", [t |-> "fail", v |-> ""]),
             cache, FALSE, FALSE)
    ELSE LET Rest(ens) ==
                 IF ~ens.ok THEN Eff(RaisedValueError(ens.text), ens.cache, ens.issued, FALSE)
                 ELSE Eff(UpstreamTool(obj), ens.cache, ens.issued,
                          obj.up \in {"ok", "UpstreamError", "NumberText", "NullText"})
         IN  Rest(_ensure_customer_id_arg(obj, LoginOf(obj, login), static, login, cache,
                                          obj.hier))

\* tool_resolve_customer: args["customer"], resolved; not found is a result.
tool_resolve_customer(obj, static, login, cache) ==
    IF obj.atype = "list"
    THEN Eff(RaisedOther("'list' object has no attribute 'get'", [t |-> "fail", v |-> ""]),
             cache, FALSE, FALSE)
    ELSE IF Truthy(Arg(obj, obj.login)) /\ obj.login.t # "str"
    THEN Eff(RaisedOther("'int' object has no attribute 'replace'", [t |-> "fail", v |-> ""]),
             cache, FALSE, FALSE)
    ELSE IF obj.atype # "obj" \/ obj.cname.t = "absent"
    THEN Eff(RaisedOther("'customer'", [t |-> "fail", v |-> ""]), cache, FALSE, FALSE)
    ELSE LET target == IF obj.cname.t = "null" THEN "" ELSE obj.cname.v
             Answer(res) == Eff(Returned(res.result), res.cache, res.issued, FALSE)
         IN  Answer(_resolve_customer_id(target, LoginOf(obj, login), static, login, cache,
                                         obj.hier))

ResolvingTools ==
    {"fetch_metrics", "fetch_campaign_summary", "list_recommendations",
     "fetch_search_terms", "fetch_change_history", "fetch_budget_pacing"}

\* func(args) for the handler TOOL_IMPLS[name].
CallTool(name, obj) ==
    CASE name \in {"ping", "noop_ok", "debug_login_header"} ->
            Eff(Returned("ok"), accountCache, FALSE, FALSE)
      [] name = "echo_short" -> Eff(tool_echo_short(obj), accountCache, FALSE, FALSE)
      [] name \in ResolvingTools ->
            tool_fetch_metrics(obj, staticLookup, loginCustomerId, accountCache)
      [] name = "resolve_customer" ->
            tool_resolve_customer(obj, staticLookup, loginCustomerId, accountCache)
      [] OTHER -> Eff(UpstreamTool(obj), accountCache, FALSE,
                      obj.up \in {"ok", "UpstreamError", "NumberText", "NullText"})

(***************************************************************************)
(* _handle_single_rpc                                                      *)
(***************************************************************************)
\* Outcome of one call: the returned response (NoResp for None) or the
\* exception that escapes, with the writes to headers["MCP-Protocol-Version"]
\* / request.state.mcp_protocol_version (proto, None when not written) and to
\* headers["WWW-Authenticate"] (www).
Ret(resp, proto, www) ==
    [raised |-> FALSE, exc |-> "", resp |-> resp, proto |-> proto, www |-> www,
     called |-> None, queried |-> FALSE, cache |-> accountCache, issued |-> FALSE]
Raise(exc) ==
    [raised |-> TRUE, exc |-> exc, resp |-> NoResp, proto |-> None, www |-> FALSE,
     called |-> None, queried |-> FALSE, cache |-> accountCache, issued |-> FALSE]

\* The outcome of a call that ran the tool function `name` with outcome r.
Called(ret, name, r) ==
    [ret EXCEPT !.called = name, !.queried = r.queried, !.cache = r.cache, !.issued = r.issued]

\* An Authorization header "<scheme> <credentials>"; the header not sent reads "".
AuthHeader(scheme, cred) == [scheme |-> scheme, cred |-> cred]
NoAuthHeader == AuthHeader("", "")

\* Mutant: any bearer credential is taken for the secret.
HeaderAuthAnyBearer(rh, key) ==
    LowerStr(rh.auth.scheme) = "bearer" \/ (rh.xkey # Absent /\ rh.xkey = key)

\* The bearer and X-MCP-Key comparison, shared by the gate and _is_authed.
HeaderAuthOk(rh, key) ==
    LET bearer_ok == LowerStr(rh.auth.scheme) = "bearer" /\ rh.auth.cred = key
        xhdr_ok == rh.xkey # Absent /\ rh.xkey = key
    IN  bearer_ok \/ xhdr_ok

_is_authed(rh, key) == IF key = "" THEN TRUE ELSE HeaderAuthOk(rh, key)

\* Mutant: the listing is given newest registration first.
VisibleToolsReversed(rh, key) ==
    [i \in 1..Len(TOOLS) |-> TOOLS[Len(TOOLS) + 1 - i]]

visible_tools(rh, key) ==
    LET authed == _is_authed(rh, key)
    IN  SelectSeq(TOOLS, LAMBDA t : authed \/ t \in PUBLIC_TOOLS)

\* params.get(k) after `params = payload.get("params") or {}`.
Param(obj, j) == IF obj.ptype = "obj" THEN Get(j) ELSE JNull

\* The text an f-string gives a value.
Fmt(j) == IF j.t = "null" THEN "None" ELSE j.v

\* The initialize branch (lines 1180-1222).
HandleInitialize(obj, rh, key, sup, basic, is_notification, _id) ==
    LET pv == Param(obj, obj.pv)
        raw_proto == IF Truthy(pv) THEN pv.v
                     ELSE IF rh.proto # Absent /\ Len(rh.proto) > 0 THEN rh.proto
                     ELSE None
        outcome == NegotiationOutcome(sup, raw_proto, basic)
        latest == _latest_supported_protocol(sup)
        error(code, message, data) ==
            IF is_notification THEN NoResp ELSE _build_jsonrpc_error(_id, code, message, data)
    IN  IF outcome = "InvalidFormat"
        THEN Ret(error(InvalidParams, "Invalid protocolVersion format", [supportedVersions |-> sup]),
                 latest, FALSE)
        ELSE IF outcome = "Unsupported"
        THEN Ret(error(InvalidParams, "Unsupported protocolVersion", [supportedVersions |-> sup]),
                 latest, FALSE)
        ELSE Ret(IF is_notification THEN NoResp
                 ELSE ResultEnvelope(_id, [protocolVersion |-> outcome,
                                           serverInfo |-> "mcp-google-ads",
                                           tools |-> visible_tools(rh, key)]),
                 outcome, FALSE)

\* The tools/call branch (lines 1235-1283).
HandleToolsCall(obj, is_notification, _id) ==
    LET name == Param(obj, obj.name)
        error(code, message) ==
            IF is_notification THEN NoResp ELSE _build_jsonrpc_error(_id, code, message, NoData)
    IN  IF name.t = "list"
        THEN \* TOOL_IMPLS.get(name) raises TypeError inside the try block
             LET e == mcp_err("Google Ads API error", [t |-> "detail", v |-> "unhashable type: 'list'"])
             IN  Ret(_build_jsonrpc_error(_id, e.code, e.message, e.data), None, FALSE)
        ELSE IF ~(name.t = "str" /\ name.v \in TOOL_IMPLS)
        THEN Ret(error(MethodNotFound, "Unknown tool: " \o Fmt(name)), None, FALSE)
        ELSE LET Translate(r) ==
                 CASE r.out = "return" ->
                        Called(Ret(IF is_notification THEN NoResp
                                   ELSE ResultEnvelope(_id, [content |-> <<[type |-> "json", json |-> r.data]>>]),
                                   None, FALSE), name.v, r)
                   [] r.out = "ValueError" ->
                        Called(Ret(error(InvalidParams, "Invalid params: " \o r.text), None, FALSE),
                               name.v, r)
                   [] r.out = "Exception" ->
                        LET data == IF r.parsed.t = "fail" THEN [t |-> "detail", v |-> r.text]
                                    ELSE r.parsed
                            e == mcp_err("Google Ads API error", data)
                        IN  Called(Ret(_build_jsonrpc_error(_id, e.code, e.message, e.data), None, FALSE),
                                   name.v, r)
             IN  Translate(CallTool(name.v, obj))

\* Mutant: the gate is active without a configured secret.
RequireKeyAlways(key) == TRUE

\* require_key = bool(MCP_SHARED_KEY)
RequireKey(key) == key # ""

_handle_single_rpc(obj, rh, key, sup, basic) ==
    IF ~obj.obj
    THEN Ret(_build_jsonrpc_error(JNull, InvalidRequest, "Invalid Request", NoData), None, FALSE)
    ELSE
    LET is_notification ==
            obj.id.t = "absent" /\ obj.jsonrpc = JStr("2.0") /\ obj.method.t # "absent"
        _id == Get(obj.id)
        require_key == RequireKey(key)
        error(code, message) ==
            IF is_notification THEN NoResp ELSE _build_jsonrpc_error(_id, code, message, NoData)
    IN
    IF Truthy(obj.method) /\ obj.method.t # "str"
    THEN Raise("'int' object has no attribute 'lower'")
    ELSE
    LET method == IF Truthy(obj.method) THEN LowerStr(obj.method.v) ELSE ""
        name == Param(obj, obj.name)
        tool_name == IF Truthy(name) THEN LowerStr(name.v) ELSE ""
    IN
    IF require_key /\ method = "tools/call" /\ obj.ptype = "list"
    THEN Raise("'list' object has no attribute 'get'")
    ELSE IF require_key /\ method = "tools/call" /\ Truthy(name) /\ name.t # "str"
    THEN Raise("object has no attribute 'lower'")
    ELSE IF require_key /\ method = "tools/call" /\ tool_name \notin PUBLIC_TOOLS
            /\ ~HeaderAuthOk(rh, key)
    THEN Ret(IF is_notification THEN NoResp
             ELSE _build_jsonrpc_error(_id, Unauthorized, "Unauthorized", NoData), None, TRUE)
    ELSE IF method = "initialize"
    THEN IF obj.ptype = "list" THEN Raise("'list' object has no attribute 'get'")
         ELSE HandleInitialize(obj, rh, key, sup, basic, is_notification, _id)
    ELSE IF method \in {"initialized", "notifications/initialized"}
    THEN Ret(ResultEnvelope(IF Truthy(_id) THEN _id ELSE JStr("notif"), [ok |-> TRUE]), None, FALSE)
    ELSE IF method \in {"tools/list", "tools.list", "list_tools", "tools.index"}
    THEN Ret(IF is_notification THEN NoResp
             ELSE ResultEnvelope(_id, [tools |-> visible_tools(rh, key)]), None, FALSE)
    ELSE IF method = "tools/call"
    THEN IF obj.ptype = "list" THEN Raise("'list' object has no attribute 'get'")
         ELSE HandleToolsCall(obj, is_notification, _id)
    ELSE Ret(error(MethodNotFound, "Method not found: " \o method), None, FALSE)

(***************************************************************************)
(* Inputs of the model                                                     *)
(***************************************************************************)
\* The versions a server build may list, and the lists it may carry: the
\* list is written newest last (app.py:28 holds the single 2024-11-05).
VersionUniverse == {"2024-11-05", "2025-03-26", "2025-06-18"}

IsAscending(sup) ==
    \A i, j \in 1..Len(sup) : i < j => (StrLeq(sup[i], sup[j]) /\ sup[i] # sup[j])

SupportedLists ==
    {sup \in UNION {[1..n -> VersionUniverse] : n \in 1..Cardinality(VersionUniverse)} :
        IsAscending(sup)}

\* Requested version strings: well-formed ones around the supported versions,
\* and malformed ones (bad day, bad month, basic form, prose, empty).
RawVersions ==
    {"2023-01-01", "2024-11-04", "2024-11-05", "2024-12-01", "2025-03-26",
     "2025-06-18", "2099-01-01",
     "2025-02-29", "2025-13-01", "20250618", "20230101", "not-a-date", ""}

\* Envelopes. The fields are the keys the handler reads: id, jsonrpc, method,
\* params (ptype: absent, a mapping, or a non-empty list) with protocolVersion
\* (pv), name and arguments (atype, msg); up is what the upstream does when a
\* tool queries it. obj is FALSE for a JSON value that is not an object.
BaseEnvelope ==
    [obj |-> TRUE, jsonrpc |-> JStr("2.0"), id |-> JInt("7"), method |-> JStr("tools/list"),
     ptype |-> "absent", pv |-> JAbsent, name |-> JAbsent, atype |-> "absent",
     msg |-> JAbsent, up |-> "ok",
     cid |-> JAbsent, cname |-> JAbsent, login |-> JAbsent, hier |-> HierFails("NoClient")]

NonObject == [BaseEnvelope EXCEPT !.obj = FALSE]

Ids == {JAbsent, JInt("7")}

InitVersions ==
    {JAbsent} \cup {JStr(v) : v \in {"2023-01-01", "2024-12-01", "2025-06-18", "2099-01-01",
                                    "", "not-a-date", "20250618"}}

InitializeEnvelopes ==
    {[BaseEnvelope EXCEPT !.method = JStr("initialize"), !.id = i, !.ptype = "obj", !.pv = v] :
        i \in Ids, v \in InitVersions}
    \cup {[BaseEnvelope EXCEPT !.method = JStr("Initialize")],
          [BaseEnvelope EXCEPT !.method = JStr("initialize"), !.ptype = "list"]}

\* Ids that are given explicitly but are falsy in Python: 0, "" and null.
ExplicitIds == {JInt("0"), JStr(""), JNull}

AckEnvelopes ==
    {[BaseEnvelope EXCEPT !.method = JStr(m), !.id = i] :
        m \in {"initialized", "notifications/initialized"}, i \in Ids \cup ExplicitIds}

ListEnvelopes == {[BaseEnvelope EXCEPT !.id = i] : i \in Ids}

Call(i, name, up) ==
    [BaseEnvelope EXCEPT !.method = JStr("tools/call"), !.id = i, !.ptype = "obj",
                         !.name = name, !.up = up, !.atype = "obj",
                         !.cid = JStr("123-456-7890")]

CallEnvelopes ==
    {Call(i, n, "ok") : i \in Ids,
        n \in {JStr("ping"), JStr("echo_short"), JStr("nope"), JInt("5")}}
    \cup {Call(JInt("7"), JList("[1]"), "ok")}
    \cup {Call(i, JStr("fetch_metrics"), u) : i \in Ids,
            u \in {"ValueError", "UpstreamError", "RuntimeError"}}
    \cup {[BaseEnvelope EXCEPT !.method = JStr("tools/call"), !.id = i, !.ptype = "list"] : i \in Ids}

\* tools/call envelopes with the arguments the resolving tools read:
\* customer_id, customer, login_customer_id; hier is what the upstream
\* hierarchy query does if the call issues it.
ToolArgs(i, name, cid, cname, login, up, hier) ==
    [Call(i, JStr(name), up) EXCEPT !.cid = cid, !.cname = cname, !.login = login, !.hier = hier]

\* Tool names in another case, tool failures whose text is JSON, and calls
\* that need the customer resolved from the static table.
MoreCallEnvelopes ==
    {Call(i, JStr("Ping"), "ok") : i \in Ids}
    \cup {Call(i, JStr("fetch_metrics"), "ok") : i \in Ids}
    \cup {Call(JInt("7"), JStr(n), u) : n \in {"fetch_metrics", "list_resources"},
                                        u \in {"NumberText", "NullText"}}
    \cup {ToolArgs(i, "fetch_metrics", JAbsent, c, JAbsent, "ok", HierFails("NoClient")) :
            i \in Ids, c \in {JAbsent, JStr("Acme Corp"), JStr("nobody")}}
    \cup {ToolArgs(JInt("7"), "resolve_customer", JAbsent, c, JAbsent, "ok", HierFails("NoClient")) :
            c \in {JAbsent, JStr("Acme Corp"), JStr("nobody")}}
    \cup {ToolArgs(JInt("7"), "fetch_metrics", JAbsent, JAbsent, JInt("5"), "ok",
                   HierFails("NoClient"))}

\* tools/call envelopes that name a root account (login_customer_id) while
\* the collaborator's credentials are missing: _new_ads_client raises in the
\* hierarchy refresh (hier) and in the tool itself (up).
CredentialEnvelopes ==
    {ToolArgs(JInt("7"), n, JAbsent, JStr(c), JStr("900-015-9936"), "RuntimeError",
              HierFails("NoClient")) :
        n \in {"fetch_metrics", "resolve_customer"}, c \in {"Globex", "Acme Corp"}}

\* tools/list and an unknown method with the explicit falsy ids.
IdEnvelopes ==
    {[BaseEnvelope EXCEPT !.method = m, !.id = i] :
        i \in ExplicitIds, m \in {JStr("tools/list"), JStr("bogus")}}

OtherEnvelopes ==
    {[BaseEnvelope EXCEPT !.method = m, !.id = i] : i \in Ids, m \in {JStr("bogus"), JInt("5")}}
    \cup {NonObject, [BaseEnvelope EXCEPT !.id = JAbsent, !.jsonrpc = JAbsent]}

Envelopes ==
    InitializeEnvelopes \cup AckEnvelopes \cup ListEnvelopes \cup CallEnvelopes
        \cup MoreCallEnvelopes \cup CredentialEnvelopes \cup IdEnvelopes \cup OtherEnvelopes

\* Entries of batch bodies: one envelope of each kind of outcome.
BatchEntries ==
    {[BaseEnvelope EXCEPT !.method = JStr("initialize"), !.id = JInt("1"), !.ptype = "obj",
                          !.pv = JStr("2024-12-01")],
     [BaseEnvelope EXCEPT !.method = JStr("initialize"), !.id = JInt("2"), !.ptype = "obj",
                          !.pv = JStr("2023-01-01")],
     [BaseEnvelope EXCEPT !.id = JInt("3")],
     Call(JInt("4"), JStr("ping"), "ok"),
     Call(JAbsent, JStr("echo_short"), "ok"),
     Call(JAbsent, JStr("ping"), "ok"),
     [BaseEnvelope EXCEPT !.method = JStr("notifications/initialized"), !.id = JAbsent],
     [BaseEnvelope EXCEPT !.method = JInt("5"), !.id = JInt("6")],
     NonObject}

\* Request headers: MCP-Protocol-Version, Authorization and X-MCP-Key.
ProtoHeaders == {Absent, "2023-01-01", "2099-01-01"}

ConfiguredKey == "s3cret"

AuthCases ==
    {<<NoAuthHeader, Absent>>, <<AuthHeader("Bearer", ConfiguredKey), Absent>>,
     <<AuthHeader("Bearer", "wrong"), Absent>>}

RequestHeaders ==
    {[proto |-> p, auth |-> a[1], xkey |-> a[2]] : p \in ProtoHeaders, a \in AuthCases}

\* Headers sent with single bodies only: the secret in X-MCP-Key, a wrong
\* X-MCP-Key, and the bearer scheme written in lower case.
MoreRequestHeaders ==
    {[proto |-> Absent, auth |-> NoAuthHeader, xkey |-> ConfiguredKey],
     [proto |-> Absent, auth |-> NoAuthHeader, xkey |-> "wrong"],
     [proto |-> Absent, auth |-> AuthHeader("bearer", ConfiguredKey), xkey |-> Absent]}

\* Request bodies: text that is not JSON, one JSON value, or an array.
Bodies ==
    {[kind |-> "invalid", entries |-> <<>>]}
    \cup {[kind |-> "single", entries |-> <<e>>] : e \in Envelopes}
    \cup {[kind |-> "batch", entries |-> es] :
            es \in UNION {[1..n -> BatchEntries] : n \in 0..MaxBatch}}

(***************************************************************************)
(* rpc(): the POST / handler, and the MCPProtocolHeader middleware         *)
(***************************************************************************)
MCP_PROTO_DEFAULT == "2024-11-05"

\* _STATIC_LOOKUP as built from a GADS_CLIENT_MAP of one client.
StaticTable == {[key |-> "acmecorp", id |-> "1111111111"]}

\* The discovery endpoints.
GetPaths == {"/.well-known/mcp.json", "/mcp/tools"}

IdleExchange ==
    /\ pc = "idle"
    /\ reqHeaders = [proto |-> Absent, auth |-> NoAuthHeader, xkey |-> Absent]
    /\ body = [kind |-> "none", entries |-> <<>>]
    /\ idx = 0
    /\ responses = <<>>
    /\ headers = [proto |-> Absent, www |-> FALSE]
    /\ stateProto = None
    /\ httpResp = [kind |-> "none", obj |-> NoResp, list |-> <<>>, status |-> 0]
    /\ finalProto = None
    /\ handled = 0
    /\ invoked = <<>>

Init ==
    /\ supported \in {<<"2024-11-05">>, <<"2024-11-05", "2025-06-18">>}
    /\ sharedKey \in {"", ConfiguredKey}
    /\ isoBasic \in BOOLEAN
    /\ staticLookup = StaticTable
    /\ loginCustomerId = ""
    /\ accountCache = {}
    /\ lookups = 0
    /\ IdleExchange
    /\ nreq = None
    /\ nres = "idle"
    /\ rreq = NoCall
    /\ rres = NotResolved
    /\ ads = IdleAds
    /\ srv = IdleServe

\* _sync_protocol_header(): the value of headers["MCP-Protocol-Version"] after it.
_sync_protocol_header(hproto, st, sup) ==
    IF st # None /\ Len(st) > 0 THEN st
    ELSE IF hproto = Absent \/ Len(hproto) = 0 THEN _latest_supported_protocol(sup)
    ELSE hproto

\* The writes of one _handle_single_rpc call to `headers`, then _sync_protocol_header.
HeadersAfter(h, r, st, sup) ==
    [proto |-> _sync_protocol_header(IF r.proto # None THEN r.proto ELSE h.proto, st, sup),
     www |-> h.www \/ r.www]

\* Mutant: the except branch answers with a server-error status.
DispatchErrorAsServerError(text) ==
    [kind |-> "json-object",
     obj |-> _build_jsonrpc_error(JNull, -32098, "RPC dispatch error: " \o text, NoData),
     list |-> <<>>, status |-> 500]

\* The `except Exception` branch of rpc(): the dispatch-error response.
DispatchErrorResponse(text) ==
    [kind |-> "json-object",
     obj |-> _build_jsonrpc_error(JNull, DispatchError, "RPC dispatch error: " \o text, NoData),
     list |-> <<>>, status |-> 200]

\* The record of the tool function a _handle_single_rpc call ran, if any.
InvokedAfter(inv, r) ==
    IF r.called # None THEN Append(inv, [name |-> r.called, queried |-> r.queried]) ELSE inv

\* A request reaches rpc(): proto_header and the headers dict are set up.
ReceiveRequest ==
    /\ pc = "idle"
    /\ \E rh \in RequestHeaders \cup MoreRequestHeaders, b \in Bodies :
          /\ rh \in MoreRequestHeaders => b.kind = "single"
          /\ reqHeaders' = rh
          /\ body' = b
          /\ headers' = [proto |-> IF rh.proto = Absent THEN MCP_PROTO_DEFAULT ELSE rh.proto,
                         www |-> FALSE]
    /\ pc' = "parse"
    /\ UNCHANGED <<config, harness, process, invoked, idx, responses, stateProto, httpResp, finalProto, handled>>

\* A GET request reaches one of the discovery endpoints.
ReceiveGet ==
    /\ pc = "idle"
    /\ \E rh \in RequestHeaders, path \in GetPaths :
          /\ reqHeaders' = rh
          /\ body' = [kind |-> "get", entries |-> <<>>, path |-> path]
    /\ pc' = "get"
    /\ UNCHANGED <<config, harness, process, invoked, idx, responses, headers, stateProto,
                   httpResp, finalProto, handled>>

\* GET /.well-known/mcp.json
mcp_discovery ==
    /\ pc = "get"
    /\ body.path = "/.well-known/mcp.json"
    /\ httpResp' = [kind |-> "json-object",
                    obj |-> [kind |-> "discovery",
                             mcpVersion |-> _latest_supported_protocol(supported),
                             supportedVersions |-> supported,
                             auth |-> IF sharedKey # "" THEN "shared-secret" ELSE "none",
                             tools |-> visible_tools(reqHeaders, sharedKey)],
                    list |-> <<>>, status |-> 200]
    /\ pc' = "returned"
    /\ UNCHANGED <<config, harness, process, invoked, reqHeaders, body, idx, responses, headers,
                   stateProto, finalProto, handled>>

\* GET /mcp/tools
mcp_tools ==
    /\ pc = "get"
    /\ body.path = "/mcp/tools"
    /\ httpResp' = [kind |-> "json-object",
                    obj |-> [kind |-> "tools", tools |-> visible_tools(reqHeaders, sharedKey)],
                    list |-> <<>>, status |-> 200]
    /\ pc' = "returned"
    /\ UNCHANGED <<config, harness, process, invoked, reqHeaders, body, idx, responses, headers,
                   stateProto, finalProto, handled>>

\* `await request.json()` raises: the except branch answers.
RpcParseFailure ==
    /\ pc = "parse"
    /\ body.kind = "invalid"
    /\ headers' = [headers EXCEPT !.proto = _sync_protocol_header(headers.proto, stateProto, supported)]
    /\ httpResp' = DispatchErrorResponse("Expecting value")
    /\ pc' = "returned"
    /\ UNCHANGED <<config, harness, process, invoked, reqHeaders, body, idx, responses, stateProto, finalProto, handled>>

\* The body is one JSON value (lines 1323-1332, or the except branch).
RpcSingle ==
    /\ pc = "parse"
    /\ body.kind = "single"
    /\ \E r \in {_handle_single_rpc(body.entries[1], reqHeaders, sharedKey, supported, isoBasic)} :
       LET st == IF r.proto # None THEN r.proto ELSE stateProto
       IN  /\ stateProto' = st
           /\ headers' = HeadersAfter(headers, r, st, supported)
           /\ httpResp' =
                IF r.raised THEN DispatchErrorResponse(r.exc)
                ELSE IF r.resp # NoResp
                THEN [kind |-> "json-object", obj |-> r.resp, list |-> <<>>, status |-> 200]
                ELSE [kind |-> "empty", obj |-> NoResp, list |-> <<>>, status |-> 200]
           /\ invoked' = InvokedAfter(invoked, r)
           /\ accountCache' = r.cache
           /\ lookups' = lookups + (IF r.issued THEN 1 ELSE 0)
    /\ handled' = handled + 1
    /\ pc' = "returned"
    /\ UNCHANGED <<config, harness, reqHeaders, body, idx, responses, finalProto>>

\* One iteration of the batch loop (lines 1310-1314); an exception ends the
\* loop in the except branch.
RpcBatchEntry ==
    /\ pc = "parse"
    /\ body.kind = "batch"
    /\ idx < Len(body.entries)
    /\ \E r \in {_handle_single_rpc(body.entries[idx + 1], reqHeaders, sharedKey, supported, isoBasic)} :
       LET st == IF r.proto # None THEN r.proto ELSE stateProto
       IN  /\ stateProto' = st
           /\ headers' = HeadersAfter(headers, r, st, supported)
           /\ IF r.raised
              THEN /\ httpResp' = DispatchErrorResponse(r.exc)
                   /\ pc' = "returned"
                   /\ UNCHANGED responses
              ELSE /\ responses' = IF r.resp # NoResp THEN Append(responses, r.resp) ELSE responses
                   /\ UNCHANGED <<httpResp, pc>>
           /\ invoked' = InvokedAfter(invoked, r)
           /\ accountCache' = r.cache
           /\ lookups' = lookups + (IF r.issued THEN 1 ELSE 0)
    /\ idx' = idx + 1
    /\ handled' = handled + 1
    /\ UNCHANGED <<config, harness, reqHeaders, body, finalProto>>

\* The end of the batch loop (lines 1319-1321).
RpcBatchReturn ==
    /\ pc = "parse"
    /\ body.kind = "batch"
    /\ idx = Len(body.entries)
    /\ httpResp' = [kind |-> "json-array", obj |-> NoResp, list |-> responses, status |-> 200]
    /\ pc' = "returned"
    /\ UNCHANGED <<config, harness, process, invoked, reqHeaders, body, idx, responses, headers, stateProto,
                   finalProto, handled>>

\* Mutant: the middleware leaves the header that rpc() put on its response.
MCPProtocolHeaderKeepsRpcHeader ==
    /\ pc = "returned"
    /\ finalProto' = headers.proto
    /\ pc' = "done"
    /\ UNCHANGED <<config, harness, process, invoked, reqHeaders, body, idx, responses, headers, stateProto,
                   httpResp, handled>>

\* MCPProtocolHeader.dispatch, after call_next: the header of the HTTP response.
MCPProtocolHeader ==
    /\ pc = "returned"
    /\ finalProto' = IF stateProto # None /\ Len(stateProto) > 0 THEN stateProto
                     ELSE _latest_supported_protocol(supported)
    /\ pc' = "done"
    /\ UNCHANGED <<config, harness, process, invoked, reqHeaders, body, idx, responses, headers, stateProto,
                   httpResp, handled>>

\* The exchange is over; request.state and the handler's locals are gone.
EndExchange ==
    /\ pc = "done"
    /\ pc' = "idle"
    /\ reqHeaders' = [proto |-> Absent, auth |-> NoAuthHeader, xkey |-> Absent]
    /\ body' = [kind |-> "none", entries |-> <<>>]
    /\ idx' = 0
    /\ responses' = <<>>
    /\ headers' = [proto |-> Absent, www |-> FALSE]
    /\ stateProto' = None
    /\ httpResp' = [kind |-> "none", obj |-> NoResp, list |-> <<>>, status |-> 0]
    /\ finalProto' = None
    /\ handled' = 0
    /\ invoked' = <<>>
    /\ UNCHANGED <<config, harness, process>>

Next ==
    \/ ReceiveRequest
    \/ ReceiveGet
    \/ mcp_discovery
    \/ mcp_tools
    \/ RpcParseFailure
    \/ RpcSingle
    \/ RpcBatchEntry
    \/ RpcBatchReturn
    \/ MCPProtocolHeader
    \/ EndExchange

Spec == Init /\ [][Next]_vars

(***************************************************************************)
(* Negotiation harness: applies validation and negotiation to one input   *)
(***************************************************************************)
InitNegotiate ==
    /\ supported \in SupportedLists
    /\ sharedKey = ""
    /\ isoBasic \in BOOLEAN
    /\ staticLookup = StaticTable
    /\ loginCustomerId = ""
    /\ accountCache = {}
    /\ lookups = 0
    /\ IdleExchange
    /\ nreq = None
    /\ nres = "idle"
    /\ rreq = NoCall
    /\ rres = NotResolved
    /\ ads = IdleAds
    /\ srv = IdleServe

Negotiate ==
    /\ \E r \in RawVersions \cup {None} :
          /\ nreq' = r
          /\ nres' = NegotiationOutcome(supported, r, isoBasic)
    /\ UNCHANGED <<config, exchange, process, rreq, rres, ads, srv>>

NextNegotiate == Negotiate

SpecNegotiate == InitNegotiate /\ [][NextNegotiate]_vars

SupportedSet == {supported[i] : i \in 1..Len(supported)}

\* C1: for every ascending supported list and every well-formed (YYYY-MM-DD)
\* requested version v, negotiation returns the supported version that is the
\* greatest one not after v in calendar order, and Unsupported exactly when no
\* supported version is on or before v.
C1_NegotiatesGreatestNotAfter ==
    (nres # "idle" /\ nreq # None /\ IsExtendedDate(nreq)) =>
        LET ok == {u \in SupportedSet : DateLeq(DateOf(u), DateOf(nreq))}
        IN  /\ (nres = "Unsupported") <=> (ok = {})
            /\ ok # {} => /\ nres \in ok
                          /\ \A u \in ok : DateLeq(DateOf(u), DateOf(nres))

\* C1 witness: a request between two supported versions is given the older
\* one, and a request after all of them is given the newest one.
C1_Witness ==
    /\ Len(supported) >= 2
    /\ nreq = "2024-12-01"
    /\ nres = "2024-11-05"
    /\ nres # _latest_supported_protocol(supported)

(***************************************************************************)
(* Properties of the initialize exchange                                   *)
(***************************************************************************)
Returned1 == pc \in {"returned", "done"} /\ body.kind = "single"

Env == body.entries[1]

\* The newest supported version, by calendar order.
Latest ==
    CHOOSE u \in SupportedSet : \A w \in SupportedSet : DateLeq(DateOf(w), DateOf(u))

\* The envelope is a JSON object whose method, lower-cased, is m.
IsMethod(e, m) == e.obj /\ e.method.t = "str" /\ LowerStr(e.method.v) = m

\* params is absent or a mapping, and holds no protocolVersion key.
NoProtocolVersion(e) == e.ptype = "absent" \/ (e.ptype = "obj" /\ e.pv.t = "absent")

\* params is a mapping that holds the string v as protocolVersion.
HasProtocolVersion(e, v) == e.ptype = "obj" /\ e.pv = JStr(v)

InitializeSucceededWith(v) ==
    /\ httpResp.kind = "json-object"
    /\ httpResp.obj.kind = "result"
    /\ httpResp.obj.id = Env.id
    /\ httpResp.obj.result.protocolVersion = v

\* C2 as stated: an initialize request whose params carry no protocolVersion
\* succeeds with result.protocolVersion equal to the newest supported version,
\* whatever else the request contains.
C2_NoVersionAlwaysNewest ==
    (Returned1 /\ IsMethod(Env, "initialize") /\ Env.id.t # "absent" /\ NoProtocolVersion(Env))
        => InitializeSucceededWith(Latest)

\* C2 amended: an initialize request whose params carry no protocolVersion and
\* whose HTTP headers carry no MCP-Protocol-Version succeeds with
\* result.protocolVersion equal to the newest supported version, whatever else
\* the request contains.
C2_NoVersionNoHeaderNewest ==
    (Returned1 /\ IsMethod(Env, "initialize") /\ Env.id.t # "absent" /\ NoProtocolVersion(Env)
        /\ reqHeaders.proto = Absent)
        => InitializeSucceededWith(Latest)

\* C2 witness: such a request was answered by a server that supports two
\* versions, with a shared secret configured and a wrong bearer token sent.
C2_Witness ==
    /\ Returned1 /\ IsMethod(Env, "initialize") /\ Env.id.t # "absent" /\ NoProtocolVersion(Env)
    /\ reqHeaders.proto = Absent
    /\ Len(supported) = 2
    /\ sharedKey # "" /\ reqHeaders.auth.cred = "wrong"
    /\ InitializeSucceededWith("2025-06-18")

InvalidFormatAnswer ==
    /\ httpResp.kind = "json-object"
    /\ httpResp.obj.kind = "error"
    /\ httpResp.obj.id = Env.id
    /\ httpResp.obj.code = -32602
    /\ httpResp.obj.message = "Invalid protocolVersion format"
    /\ "data" \in DOMAIN httpResp.obj
    /\ httpResp.obj.data = [supportedVersions |-> supported]

\* C3: for every requested protocolVersion string that is present but does not
\* match YYYY-MM-DD (the empty string included), initialize fails with the
\* invalid-format error (-32602, 'Invalid protocolVersion format', data listing
\* the supported versions) and the response header carries the newest supported
\* version.
C3_MalformedVersionRejected ==
    (pc = "done" /\ body.kind = "single" /\ IsMethod(Env, "initialize") /\ Env.id.t # "absent"
        /\ \E v \in RawVersions : HasProtocolVersion(Env, v) /\ ~IsExtendedDate(v))
        => (InvalidFormatAnswer /\ finalProto = Latest)

\* The requested version of the envelope is a well-formed date before every
\* supported version, in calendar order.
PredatesAllSupported(e) ==
    /\ e.ptype = "obj" /\ e.pv.t = "str" /\ IsExtendedDate(e.pv.v)
    /\ \A u \in SupportedSet : ~DateLeq(DateOf(u), DateOf(e.pv.v))

UnsupportedAnswer ==
    /\ httpResp.kind = "json-object"
    /\ httpResp.obj.kind = "error"
    /\ httpResp.obj.id = Env.id
    /\ httpResp.obj.code = -32602
    /\ httpResp.obj.message = "Unsupported protocolVersion"
    /\ "data" \in DOMAIN httpResp.obj
    /\ httpResp.obj.data = [supportedVersions |-> supported]

\* C4: when the requested version predates every supported version, initialize
\* returns the Unsupported error whose data.supportedVersions is the full
\* supported list (nothing at all for a notification), and both the headers map
\* and the per-request state record the newest supported version.
C4_OlderThanAllUnsupported ==
    (Returned1 /\ IsMethod(Env, "initialize") /\ PredatesAllSupported(Env))
        => /\ IF Env.id.t = "absent" THEN httpResp.kind = "empty" ELSE UnsupportedAnswer
           /\ headers.proto = Latest
           /\ stateProto = Latest

\* C4 witness: 2023-01-01 was requested with an id from a server supporting two
\* versions while the client's header named another version.
C4_Witness ==
    /\ Returned1 /\ IsMethod(Env, "initialize") /\ PredatesAllSupported(Env)
    /\ Env.id.t # "absent"
    /\ Len(supported) = 2
    /\ reqHeaders.proto = "2099-01-01"
    /\ UnsupportedAnswer
    /\ headers.proto = "2025-06-18"

(***************************************************************************)
(* Properties of the response header                                       *)
(***************************************************************************)
\* The envelope reaches the negotiation of the initialize branch.
Negotiates(e) == IsMethod(e, "initialize") /\ e.ptype # "list"

\* The version string the envelope asks for: params.protocolVersion, else the
\* request's MCP-Protocol-Version header, else none.
RequestedBy(e) ==
    IF e.ptype = "obj" /\ Truthy(e.pv) THEN e.pv.v
    ELSE IF reqHeaders.proto # Absent /\ Len(reqHeaders.proto) > 0 THEN reqHeaders.proto
    ELSE None

\* C5: every HTTP response of the RPC endpoint (success, RPC error, dispatch
\* error, no initialize at all) carries an MCP-Protocol-Version header that is a
\* supported version: the one negotiated in the exchange (by the last initialize
\* handled, when a batch holds several), the newest supported one when none was
\* negotiated; on a successful initialize it equals result.protocolVersion.
C5_HeaderIsNegotiatedOrNewest ==
    pc = "done" =>
        LET inits == {i \in 1..handled : Negotiates(body.entries[i])}
        IN  /\ finalProto \in SupportedSet
            /\ inits = {} => finalProto = Latest
            /\ inits # {} =>
                  LET last == CHOOSE i \in inits : \A j \in inits : j <= i
                      o == NegotiationOutcome(supported, RequestedBy(body.entries[last]), isoBasic)
                  IN  finalProto = IF o \in {"InvalidFormat", "Unsupported"} THEN Latest ELSE o
            /\ (body.kind = "single" /\ IsMethod(Env, "initialize")
                    /\ httpResp.kind = "json-object" /\ httpResp.obj.kind = "result")
                  => finalProto = httpResp.obj.result.protocolVersion

\* C5 witness: a tools/list request that sent the unsupported 2099-01-01 in its
\* MCP-Protocol-Version header was answered with the newest supported version
\* in the header, while rpc()'s own headers dict still held the client's value.
C5_Witness ==
    /\ pc = "done" /\ body.kind = "single" /\ IsMethod(Env, "tools/list")
    /\ reqHeaders.proto = "2099-01-01"
    /\ headers.proto = "2099-01-01"
    /\ httpResp.kind = "json-object"
    /\ finalProto = Latest

(***************************************************************************)
(* Properties of notifications and batches                                 *)
(***************************************************************************)
AfterReturn == pc \in {"returned", "done"}

\* A well-formed notification: a JSON-RPC 2.0 object with a string method,
\* params absent or a mapping, and no id key.
IsNotificationEnvelope(e) ==
    /\ e.obj /\ e.id.t = "absent" /\ e.jsonrpc = JStr("2.0")
    /\ e.method.t = "str" /\ e.ptype # "list"

\* What the envelope gets when it is the only one of its request.
Alone(e) == _handle_single_rpc(e, reqHeaders, sharedKey, supported, isoBasic)

\* C6: an envelope with no id key never produces a response entry, for every
\* method and every outcome (success, Unauthorized, unknown method, unknown
\* tool, invalid params, a tool that raises, the initialized acknowledgement).
C6_NotificationNeverAnswered ==
    (AfterReturn /\ body.kind = "single" /\ IsNotificationEnvelope(Env))
        => httpResp.kind = "empty"

\* C7: for every batch whose elements are all notifications the per-entry
\* handler yields no entries and the HTTP response body is the empty list; a
\* single notification yields a response with no body at all.
C7_NotificationOnlyBatchIsEmpty ==
    /\ (body.kind = "batch"
            /\ \A i \in 1..Len(body.entries) : IsNotificationEnvelope(body.entries[i]))
          => /\ responses = <<>>
             /\ AfterReturn => (httpResp.kind = "json-array" /\ httpResp.list = <<>>)
    /\ (pc = "done" /\ body.kind = "single" /\ IsNotificationEnvelope(Env))
          => (httpResp.kind = "empty" /\ httpResp.obj = NoResp)

\* C8: in a batch every element that would produce a response on its own still
\* gets that same response in the batch output, whatever its siblings contain
\* (stated for the elements that carry an id).
C8_SiblingsStillAnswered ==
    (AfterReturn /\ body.kind = "batch") =>
        \A i \in 1..Len(body.entries) :
            (body.entries[i].obj /\ body.entries[i].id.t # "absent"
                /\ ~Alone(body.entries[i]).raised /\ Alone(body.entries[i]).resp # NoResp)
                => /\ httpResp.kind = "json-array"
                   /\ \E j \in 1..Len(httpResp.list) :
                          httpResp.list[j] = Alone(body.entries[i]).resp

\* The responses of the entries that produce one, in input order.
RECURSIVE ResponsesInOrder(_)
ResponsesInOrder(es) ==
    IF es = <<>> THEN <<>>
    ELSE LET a == Alone(Head(es))
         IN  (IF ~a.raised /\ a.resp # NoResp THEN <<a.resp>> ELSE <<>>)
                \o ResponsesInOrder(Tail(es))

\* C9: the batch output is exactly the sequence of the responses of the entries
\* that produce one, in input order, notifications omitted in place.
C9_BatchOutputInInputOrder ==
    (AfterReturn /\ body.kind = "batch")
        => (httpResp.kind = "json-array" /\ httpResp.list = ResponsesInOrder(body.entries))

\* C10: a request body that is not valid JSON yields a single ParseError
\* response (code -32700) with a null id, and no per-envelope logic runs.
C10_InvalidJsonIsParseError ==
    (AfterReturn /\ body.kind = "invalid")
        => /\ httpResp.kind = "json-object"
           /\ httpResp.obj.kind = "error"
           /\ httpResp.obj.code = -32700
           /\ httpResp.obj.id = JNull
           /\ handled = 0

(***************************************************************************)
(* Properties of tools/call: unknown names and authorization               *)
(***************************************************************************)
\* The names of the registry.
Registered == {TOOLS[i] : i \in 1..Len(TOOLS)}

\* A single tools/call request (with an id) whose params are absent or a mapping.
IsToolsCall(e) == IsMethod(e, "tools/call") /\ e.id.t # "absent" /\ e.ptype # "list"

\* The name the call gives (None when it gives none).
CallName(e) == Param(e, e.name)

\* The single response is the error `code` for the envelope's id.
ErrorAnswer(code) ==
    /\ httpResp.kind = "json-object"
    /\ httpResp.obj.kind = "error"
    /\ httpResp.obj.id = Env.id
    /\ httpResp.obj.code = code

\* C11: a tools/call whose name is not an exact, case-sensitive match of a
\* registered tool is answered with the error -32601 whose message holds the
\* name, for every caller (authenticated or not, shared secret configured or
\* not); the dispatcher does not crash.
C11_UnknownToolIsMethodNotFound ==
    (Returned1 /\ IsToolsCall(Env)
        /\ ~(CallName(Env).t = "str" /\ CallName(Env).v \in Registered))
        => /\ ErrorAnswer(-32601)
           /\ httpResp.obj.message = "Unknown tool: " \o Fmt(CallName(Env))

\* The request's headers carry the secret: as the credential of a bearer
\* Authorization header, or as X-MCP-Key, by string equality.
CarriesSecret ==
    \/ LowerStr(reqHeaders.auth.scheme) = "bearer" /\ reqHeaders.auth.cred = sharedKey
    \/ reqHeaders.xkey = sharedKey

\* The call names no tool, or names one with a string.
NamesWithString(e) == CallName(e).t \in {"str", "null"}

\* The string the call names ("" when it names none).
NameText(e) == IF CallName(e).t = "str" THEN CallName(e).v ELSE ""

UnauthorizedAnswer ==
    /\ ErrorAnswer(-32001)
    /\ httpResp.obj.message = "Unauthorized"
    /\ httpResp.status = 200
    /\ invoked = <<>>

ResponseObjects ==
    IF httpResp.kind = "json-object" THEN {httpResp.obj}
    ELSE IF httpResp.kind = "json-array" THEN {httpResp.list[i] : i \in 1..Len(httpResp.list)}
    ELSE {}

IsUnauthorized(r) == r.kind = "error" /\ r.code = -32001

\* A tools/call of the request that names (exactly) a public tool.
CallsPublicTool(e) ==
    e.obj /\ IsMethod(e, "tools/call") /\ e.ptype # "list" /\ NamesWithString(e)
        /\ NameText(e) \in PUBLIC_TOOLS

\* C13: no request is answered Unauthorized when no shared secret is
\* configured, and no tools/call that targets a public tool is answered
\* Unauthorized, whatever headers it carries.
C13_OpenModeAndPublicToolsNeverUnauthorized ==
    (AfterReturn /\ body.kind \in {"single", "batch", "invalid"}) =>
        /\ sharedKey = "" => (\A r \in ResponseObjects : ~IsUnauthorized(r)) /\ ~headers.www
        /\ \A i \in 1..Len(body.entries) :
              CallsPublicTool(body.entries[i]) =>
                 \A r \in ResponseObjects : IsUnauthorized(r) => r.id # body.entries[i].id

\* C13 witness: with a secret configured, the public tool ping called with a
\* wrong bearer token ran and was answered with its result.
C13_Witness ==
    /\ Returned1 /\ sharedKey # "" /\ CallsPublicTool(Env) /\ Env.id.t # "absent"
    /\ CallName(Env) = JStr("ping")
    /\ reqHeaders.auth = AuthHeader("Bearer", "wrong")
    /\ httpResp.kind = "json-object" /\ httpResp.obj.kind = "result"
    /\ invoked = <<[name |-> "ping", queried |-> FALSE]>>

(***************************************************************************)
(* Properties of the tool listings                                         *)
(***************************************************************************)
\* The caller is authorized: open mode, or the headers carry the secret.
Authorized == sharedKey = "" \/ CarriesSecret

\* The registry in insertion order, restricted to what the caller may see.
ExpectedListing == SelectSeq(TOOLS, LAMBDA t : Authorized \/ t \in PUBLIC_TOOLS)

\* The tool list a response object carries, if it carries one.
HasListing(r) ==
    \/ r.kind \in {"discovery", "tools"}
    \/ r.kind = "result" /\ "tools" \in DOMAIN r.result

Listing(r) == IF r.kind = "result" THEN r.result.tools ELSE r.tools

\* C14: the tool list returned by tools/list, by initialize and by the two
\* discovery endpoints is exactly the registry in insertion order restricted
\* to the tools the caller may see (all tools for an authorized caller, the
\* public tools otherwise); a non-public tool never appears in a response to an
\* unauthorized caller.
C14_ListingIsRegistryInOrder ==
    AfterReturn =>
        /\ \A r \in ResponseObjects : HasListing(r) =>
              /\ Listing(r) = ExpectedListing
              /\ ~Authorized => \A i \in 1..Len(Listing(r)) : Listing(r)[i] \in PUBLIC_TOOLS
        /\ body.kind = "get" => HasListing(httpResp.obj)
        /\ (body.kind = "single" /\ Env.obj /\ Env.id.t # "absent" /\ Env.method.t = "str"
                /\ LowerStr(Env.method.v) \in {"tools/list", "tools.list", "list_tools", "tools.index"})
              => (httpResp.kind = "json-object" /\ HasListing(httpResp.obj))
        /\ (body.kind = "single" /\ httpResp.kind = "json-object" /\ IsMethod(Env, "initialize")
                /\ httpResp.obj.kind = "result")
              => HasListing(httpResp.obj)

\* C14 witness: a caller without the secret asked /.well-known/mcp.json of a
\* server with a secret configured and was given the listing in registry order.
C14_Witness ==
    /\ AfterReturn /\ body.kind = "get" /\ body.path = "/.well-known/mcp.json"
    /\ sharedKey # "" /\ ~CarriesSecret
    /\ httpResp.obj.tools = ExpectedListing
    /\ httpResp.obj.tools[1] = "fetch_account_tree"
    /\ Len(httpResp.obj.tools) = 13

(***************************************************************************)
(* Properties of tool failures                                             *)
(***************************************************************************)
\* The single request is a tools/call (with an id) of the registered tool it
\* names, and Outcome is what the tool function did.
CallsRegistered == IsToolsCall(Env) /\ CallName(Env).t = "str" /\ CallName(Env).v \in Registered

Outcome == CallTool(CallName(Env).v, Env)

\* The gate let the call through.
PassedGate == ~(httpResp.kind = "json-object" /\ IsUnauthorized(httpResp.obj))

InvalidParamsAnswer(text) ==
    /\ ErrorAnswer(-32602)
    /\ httpResp.obj.message = "Invalid params: " \o text

ToolFailureAnswer(data) ==
    /\ ErrorAnswer(-32000)
    /\ httpResp.obj.message = "Google Ads API error"
    /\ "data" \in DOMAIN httpResp.obj
    /\ httpResp.obj.data = data

CustomerUnresolved(e) ==
    /\ e.atype # "list"
    /\ ~Truthy(Arg(e, e.cid))
    /\ \/ ~Truthy(Arg(e, e.cname))
       \/ _resolve_customer_id(e.cname.v, LoginOf(e, loginCustomerId), staticLookup,
                               loginCustomerId, accountCache, e.hier).result = None

\* C16: for a tools/call of a tool that needs the customer id, a customer name
\* that cannot be resolved, or a missing customer argument, is reported as
\* InvalidParams (-32602), never as the tool-failure error, and the tool's
\* upstream query is not issued.
C16_UnresolvedCustomerIsInvalidParams ==
    (Returned1 /\ CallsRegistered /\ PassedGate /\ CallName(Env).v \in ResolvingTools
        /\ CustomerUnresolved(Env))
        => /\ ErrorAnswer(-32602)
           /\ \A i \in 1..Len(invoked) : ~invoked[i].queried

(***************************************************************************)
(* Properties of the dispatch boundary and of the response shape           *)
(***************************************************************************)
\* An exception escaped the per-envelope handling of this request: the body
\* did not parse, or _handle_single_rpc raised on an entry.
ExceptionEscaped ==
    \/ body.kind = "invalid"
    \/ \E i \in 1..handled : Alone(body.entries[i]).raised

\* C17: an exception that escapes per-envelope handling is caught by rpc() and
\* answered with the dispatch-error envelope (code -32098, null id) and HTTP
\* status 200; every response rpc() returns has status 200.
C17_EscapedExceptionIsDispatchError ==
    (AfterReturn /\ body.kind # "get") =>
        /\ httpResp.kind \in {"json-object", "json-array", "empty"}
        /\ httpResp.status = 200
        /\ ExceptionEscaped =>
              /\ httpResp.kind = "json-object"
              /\ httpResp.obj.kind = "error"
              /\ httpResp.obj.code = -32098
              /\ httpResp.obj.id = JNull
              /\ "data" \notin DOMAIN httpResp.obj

\* C17 witness: the second entry of a batch raised after the first had produced
\* its response, and the whole request was answered with the dispatch error.
C17_Witness ==
    /\ AfterReturn /\ body.kind = "batch" /\ handled = 2
    /\ Alone(body.entries[2]).raised
    /\ responses # <<>>
    /\ httpResp.kind = "json-object" /\ httpResp.obj.code = -32098
    /\ httpResp.status = 200

(***************************************************************************)
(* Shape of the response objects                                           *)
(***************************************************************************)
\* The error data is a JSON mapping: the supportedVersions mapping of
\* initialize, a parsed JSON object, or the {detail: text} mapping.
DataIsMapping(d) == "t" \in DOMAIN d => d.t \in {"obj", "detail"}

\* The object has the envelope shape, and an error member with an integer
\* code, a string message and, when present, a mapping as data.
HasEnvelopeShape(r) ==
    /\ r.kind \in {"result", "error"}
    /\ r.jsonrpc = "2.0"
    /\ "id" \in DOMAIN r
    /\ r.kind = "result" => ("result" \in DOMAIN r /\ "code" \notin DOMAIN r)
    /\ r.kind = "error" =>
          /\ "result" \notin DOMAIN r
          /\ r.code \in Int
          /\ r.message \in STRING
          /\ "data" \in DOMAIN r => DataIsMapping(r.data)

\* C18: every response object the dispatcher emits has the envelope shape
\* {jsonrpc, id, exactly one of result or error}; an error has an integer code
\* and a string message, and its data, when present, is a mapping.
C18_ResponseEnvelopeShape ==
    (AfterReturn /\ body.kind # "get") => \A r \in ResponseObjects : HasEnvelopeShape(r)

(***************************************************************************)
(* Resolution harness: resolves one input after another in one process     *)
(***************************************************************************)
MaxLookups == 2

\* Inputs of _resolve_customer_id: ids with and without separators, digit
\* strings one short and one long of the accepted lengths, ids mixed with
\* letters, names of the static table and of the hierarchy, near misses, and
\* names nobody has ("Globex C" is as near to "Globex A" as to "Globex B"),
\* and punctuation only.
NameInputs ==
    {"", "1234567", "12345678", "123-456-7890", " 123 456 7890 ",
     "12345678901234567890", "123456789012345678901",
     "abc12345678", "Shop 24 (id 123-456-7890)", "Route 66",
     "Acme Corp", "ACME-corp", "acme corq", "Globex", "globexx", "Globex C", "nobody",
     "!!!"}

RootInputs == {None, "900-015-9936"}

GlobexRow == [name |-> "Globex", cid |-> "222-333-4444"]
NoIdRow == [name |-> "Initech", cid |-> ""]
AcmeRow == [name |-> "ACME Corp.", cid |-> "555-666-7777"]
\* An account without a descriptive name.
UnnamedRow == [name |-> "", cid |-> "444-000-0001"]
GlobexARow == [name |-> "Globex A", cid |-> "333-000-0001"]
GlobexBRow == [name |-> "Globex B", cid |-> "333-000-0002"]

\* What the upstream hierarchy does when asked.
HierOutcomes ==
    {HierFails("NoClient"), HierFails("QueryFails"),
     [kind |-> "IterFails", rows |-> <<GlobexRow>>],
     HierRows(<<>>), HierRows(<<GlobexRow, NoIdRow, UnnamedRow>>),
     HierRows(<<AcmeRow, GlobexARow, GlobexBRow>>)}

\* LOGIN_CUSTOMER_ID of the process when it is set: a root account other than
\* the one the requests name.
OtherRoot == "8000000001"

InitResolve ==
    /\ supported = <<"2024-11-05">>
    /\ sharedKey = ""
    /\ isoBasic = TRUE
    /\ staticLookup \in {{}, StaticTable}
    /\ loginCustomerId \in {"", OtherRoot}
    /\ accountCache = {}
    /\ lookups = 0
    /\ IdleExchange
    /\ nreq = None
    /\ nres = "idle"
    /\ rreq = NoCall
    /\ rres = NotResolved
    /\ ads = IdleAds
    /\ srv = IdleServe

\* The upstream was not asked by the call.
Unasked == [kind |-> "unasked", rows |-> <<>>]

\* One call _resolve_customer_id(name_or_id, root_mcc) in the process: rreq
\* keeps the arguments, the upstream's behaviour when the call reached it, and
\* the cache before the call, rres what the call did.
Resolve ==
    /\ \E name \in NameInputs, root \in RootInputs, hier \in HierOutcomes :
          \E r \in {_resolve_customer_id(name, root, staticLookup, loginCustomerId,
                                         accountCache, hier)} :
              /\ lookups + (IF r.issued THEN 1 ELSE 0) <= MaxLookups
              /\ rreq' = [name |-> name, root |-> root, cache |-> accountCache,
                           hier |-> IF r.issued \/ r.logged \/ r.raised THEN hier
                                    ELSE Unasked]
              /\ rres' = r
              /\ accountCache' = r.cache
              /\ lookups' = lookups + (IF r.issued THEN 1 ELSE 0)
    /\ UNCHANGED <<config, exchange, nreq, nres, ads, srv>>

NextResolve == Resolve

SpecResolve == InitResolve /\ [][NextResolve]_vars

\* str.replace of the separators of a written customer id (dashes, blanks).
RECURSIVE StripSeparators(_)
StripSeparators(s) ==
    IF Len(s) = 0 THEN ""
    ELSE (IF Char(s, 1) \in {"-", " "} THEN "" ELSE Char(s, 1)) \o StripSeparators(Tail(s))

\* The input, separators aside, is a string of 8 to 20 digits.
IsSeparatedId(s) ==
    LET t == StripSeparators(s)
    IN  AllDigits(t) /\ Len(t) >= 8 /\ Len(t) <= 20

\* C19: resolve takes the already-canonical shortcut exactly when the input,
\* separators stripped, is all digits and 8 to 20 digits long; it then returns
\* those digits and consults neither table nor the upstream; an input that
\* also holds letters is not taken as an identifier.
C19_ShortcutExactlyForSeparatedDigits ==
    rres.step # "idle" =>
        /\ (rres.step = "id") <=> IsSeparatedId(rreq.name)
        /\ rres.step = "id" =>
              /\ rres.result = StripSeparators(rreq.name)
              /\ ~rres.issued
              /\ accountCache = rreq.cache

\* The call reached the refresh of the account cache: no shortcut and no
\* static entry answered, the cache was empty and a root account was known.
RefreshAttempted ==
    /\ rres.step \in {"cache", "fuzzy", "none"}
    /\ rreq.cache = {}
    /\ (rreq.root # None /\ Len(rreq.root) > 0) \/ Len(loginCustomerId) > 0

UpstreamFailed == rreq.hier.kind \in {"NoClient", "QueryFails", "IterFails"}

\* Nothing the process knows after the call resolves the input: it holds no
\* 8 to 20 digits, and no key of the static table or of the cache is, or is
\* close to, its normalized form.
Unresolvable ==
    /\ ~LooksLikeId(DigitsOf(rreq.name))
    /\ \A k \in Keys(staticLookup) \cup Keys(accountCache) :
          ~ClearsCutoff(Ratio(k, _norm_key(rreq.name)))

\* C20: resolve raises for no input and no upstream behaviour; when the
\* hierarchy lookup fails (client construction, the query, or the iteration of
\* its rows) the failure is logged and the cache stays as it was; an input
\* nothing resolves yields None.
C20_ResolveNeverRaises ==
    rres.step # "idle" =>
        /\ ~rres.raised
        /\ (RefreshAttempted /\ UpstreamFailed) =>
              /\ rres.logged
              /\ accountCache = rreq.cache
        /\ Unresolvable => rres.result = None

\* C20 witness: with a root account known and the cache empty, the hierarchy
\* query was issued and failed; the unknown name was answered None and the
\* cache is still empty.
C20_Witness ==
    /\ rres.step = "none"
    /\ rreq.name = "nobody"
    /\ rreq.hier.kind = "QueryFails"
    /\ RefreshAttempted /\ rres.issued /\ rres.logged
    /\ ~rres.raised
    /\ rres.result = None
    /\ accountCache = {}

(***************************************************************************)
(* Properties of the fuzzy fallback and of the order of the steps          *)
(***************************************************************************)
\* The keys the process knows after the call.
KnownKeys == Keys(staticLookup) \cup Keys(accountCache)

\* The similarity of the normalized input to every known key is below 0.8
\* (an equal key has similarity 1).
FarFromEveryKey ==
    \A k \in KnownKeys :
        LET r == Ratio(k, _norm_key(rreq.name)) IN 10 * r[1] < 8 * r[2]

\* C21: every input that is not itself a written identifier and whose
\* normalized form is below similarity 0.8 to every key of the static table
\* and of the cache is answered not-found, never an identifier.
C21_BelowFloorIsNotFound ==
    (rres.step # "idle" /\ FarFromEveryKey /\ ~IsSeparatedId(rreq.name))
        => rres.result = None

\* The same holds for the inputs that hold fewer than 8 or more than 20 digits.
BelowFloorWithoutIdDigitsIsNotFound ==
    (rres.step # "idle" /\ FarFromEveryKey /\ ~LooksLikeId(DigitsOf(rreq.name)))
        => (rres.result = None /\ rres.step \in {"empty", "none"})

(***************************************************************************)
(* Missing collaborator credentials                                        *)
(***************************************************************************)
\* The collaborator's credentials are missing: every _new_ads_client call of
\* the request raises.
CredentialsMissing(e) == e.up = "RuntimeError" /\ e.hier.kind = "NoClient"

\* A root account is known to the call: login_customer_id or LOGIN_CUSTOMER_ID.
RootKnown(e) == (e.login.t = "str" /\ Len(e.login.v) > 0) \/ Len(loginCustomerId) > 0

\* The call of a resolving tool needs the upstream: it has a customer id and
\* goes on to its query, or it has a customer name that the static table
\* answers (then the query follows) or that needs the hierarchy of the root.
NeedsUpstream(e) ==
    /\ CallName(e).v \in ResolvingTools
    /\ e.atype = "obj"
    /\ e.login.t \in {"absent", "str"}
    /\ \/ Truthy(e.cid)
       \/ Truthy(e.cname) /\ e.cname.t = "str"
             /\ (HasKey(staticLookup, _norm_key(e.cname.v)) \/ RootKnown(e))

\* C22: when the collaborator's credentials are missing, a tools/call that
\* needs the upstream is answered with the tool-failure error (-32000) that
\* names the missing configuration, never with another error.
C22_MissingCredentialsSurfaced ==
    (Returned1 /\ CallsRegistered /\ PassedGate /\ NeedsUpstream(Env)
        /\ CredentialsMissing(Env))
        => ToolFailureAnswer([t |-> "detail", v |-> "Missing required env"])

(***************************************************************************)
(* Retry harness: one _ads_call after another, fn decided by the upstream  *)
(***************************************************************************)
MaxAttempts == 6

\* The attempts argument: the default, smaller ones, and one large enough for
\* the backoff to reach its cap.
AttemptsInputs == {1, 2, DefaultAttempts, MaxAttempts}

\* random.random(), in tenths.
Jitters == {0, 9}

SubErrors == <<[message |-> "Quota exceeded", code |-> "QuotaError"]>>

\* What fn() can raise.
RaisedByFn ==
    {GoogleAdsException(s, r, f) :
        s \in {"UNAVAILABLE", "INTERNAL", "PERMISSION_DENIED", "INVALID_ARGUMENT", Absent},
        r \in {None, "req-1"},
        f \in {NoFailure, FailureOf(SubErrors)}}
    \cup {OtherException("ValueError"), OtherException("TypeError")}

InitRetry ==
    /\ supported = <<"2024-11-05">>
    /\ sharedKey = ""
    /\ isoBasic = TRUE
    /\ staticLookup = StaticTable
    /\ loginCustomerId = ""
    /\ accountCache = {}
    /\ lookups = 0
    /\ IdleExchange
    /\ nreq = None
    /\ nres = "idle"
    /\ rreq = NoCall
    /\ rres = NotResolved
    /\ ads = IdleAds
    /\ srv = IdleServe

\* _ads_call(fn, attempts) is entered: i = 1.
AdsCallEnter ==
    /\ ads.pc = "idle"
    /\ \E n \in AttemptsInputs :
          ads' = [IdleAds EXCEPT !.pc = "loop", !.attempts = n, !.i = 1]
    /\ UNCHANGED <<config, exchange, process, nreq, nres, rreq, rres, srv>>

\* An iteration whose fn() returns.
AdsAttemptReturns ==
    /\ ads.pc = "loop"
    /\ ads.i <= ads.attempts
    /\ ads' = AfterReturnOf(ads, "rows")
    /\ UNCHANGED <<config, exchange, process, nreq, nres, rreq, rres, srv>>

\* An iteration whose fn() raises.
AdsAttemptRaises ==
    /\ ads.pc = "loop"
    /\ ads.i <= ads.attempts
    /\ \E e \in RaisedByFn, jitter \in Jitters : ads' = AfterRaise(ads, e, jitter)
    /\ UNCHANGED <<config, exchange, process, nreq, nres, rreq, rres, srv>>

NextRetry == AdsCallEnter \/ AdsAttemptReturns \/ AdsAttemptRaises

SpecRetry == InitRetry /\ [][NextRetry]_vars

\* The calls of fn and the sleeps of the running _ads_call, in order.
AdsCalls == SelectSeq(ads.events, LAMBDA ev : ev.ev = "call")
AdsSleeps == SelectSeq(ads.events, LAMBDA ev : ev.ev = "sleep")

\* The first k attempts failed with a transient status and each was followed
\* by exactly one sleep, which precedes the next attempt: the events are
\* call 1, sleep 1, ..., call k, sleep k.
TransientPrefix(k) ==
    /\ Len(ads.events) >= 2 * k
    /\ \A j \in 1..k :
          /\ ads.events[2 * j - 1].ev = "call"
          /\ ads.events[2 * j - 1].i = j
          /\ ads.events[2 * j - 1].did \in TRANSIENTS
          /\ ads.events[2 * j].ev = "sleep"
          /\ ads.events[2 * j].i = j

\* C23: when fn fails k times with a transient status and then succeeds, with
\* k < attempts, _ads_call returns fn's value, has called fn exactly k+1 times
\* and slept exactly k times, each sleep between a failed attempt and the
\* next one; it never gives up after a transient failure while attempts remain.
C23_RetrySuccessPath ==
    /\ ads.pc = "loop" =>
          /\ ads.i <= ads.attempts
          /\ Len(ads.events) = 2 * (ads.i - 1)
          /\ TransientPrefix(ads.i - 1)
    /\ ads.pc = "returned" =>
          LET k == Len(AdsSleeps)
          IN  /\ k < ads.attempts
              /\ TransientPrefix(k)
              /\ Len(ads.events) = 2 * k + 1
              /\ ads.events[2 * k + 1] = CallEvent(k + 1, "ok")
              /\ Len(AdsCalls) = k + 1
              /\ ads.outcome = [kind |-> "return", value |-> "rows"]
    /\ (ads.pc = "raised" /\ ads.events[Len(ads.events)].did \in TRANSIENTS)
          => ads.events[Len(ads.events)].i = ads.attempts

\* C23 witness: with the default five attempts, fn failed twice with a
\* transient status and then returned: three calls, two sleeps.
C23_Witness ==
    /\ ads.pc = "returned"
    /\ ads.attempts = DefaultAttempts
    /\ Len(AdsCalls) = 3 /\ Len(AdsSleeps) = 2
    /\ ads.events[1].did = "UNAVAILABLE" /\ ads.events[3].did = "INTERNAL"
    /\ ads.events[5].did = "ok"
    /\ ads.outcome.kind = "return"

\* The statuses of the harness outside the transient set ("UNKNOWN" is the
\* status of a GoogleAdsException without an error attribute).
TerminalStatuses == {"PERMISSION_DENIED", "INVALID_ARGUMENT", "UNKNOWN"}

\* C24: an attempt that fails with a status outside the transient set ends
\* _ads_call at once with the terminal error of that status: no sleep and no
\* call follows it (on the first attempt: one call, no sleep).
C24_TerminalStatusFailsAtOnce ==
    \A j \in 1..Len(ads.events) :
        (ads.events[j].ev = "call" /\ ads.events[j].did \in TerminalStatuses) =>
            /\ j = Len(ads.events)
            /\ ads.pc = "raised"
            /\ ads.outcome.kind = "RuntimeError"
            /\ ads.outcome.details.status = ads.events[j].did
            /\ Len(AdsCalls) = ads.events[j].i
            /\ Len(AdsSleeps) = ads.events[j].i - 1

\* C24 witness: the first attempt of a call with five attempts failed with
\* PERMISSION_DENIED: one call, no sleep, the terminal error.
C24_Witness ==
    /\ ads.pc = "raised"
    /\ ads.attempts = DefaultAttempts
    /\ ads.events = <<CallEvent(1, "PERMISSION_DENIED")>>
    /\ ads.outcome.kind = "RuntimeError"
    /\ ads.outcome.details.status = "PERMISSION_DENIED"

\* Every attempt of the finished call failed with a transient status.
EveryAttemptTransient ==
    /\ ads.pc = "raised"
    /\ \A j \in 1..Len(AdsCalls) : AdsCalls[j].did \in TRANSIENTS

\* C25: _ads_call calls fn at most `attempts` times (each iteration adds a
\* call, and a sleep only before a further call); when every attempt fails
\* with a transient status it has called fn exactly `attempts` times, slept
\* attempts-1 times, and ends in the RuntimeError whose details are the status
\* name, the request id and the sub-errors of the last failure; the details
\* have a hint exactly when the status is PERMISSION_DENIED.
C25_AttemptsExhausted ==
    /\ ads.pc # "idle" =>
          /\ Len(AdsCalls) <= ads.attempts
          /\ Len(AdsSleeps) <= ads.attempts - 1
          /\ Len(ads.events) <= 2 * ads.attempts - 1
    /\ ads.pc = "loop" => ads.i = Len(AdsCalls) + 1
    /\ EveryAttemptTransient =>
          /\ Len(AdsCalls) = ads.attempts
          /\ Len(AdsSleeps) = ads.attempts - 1
          /\ ads.outcome.kind = "RuntimeError"
          /\ ads.outcome.details.status = ads.last.status
          /\ ads.outcome.details.status = AdsCalls[ads.attempts].did
          /\ ads.outcome.details.request_id = ads.last.rid
          /\ ads.outcome.details.errors = ads.last.failure.errors
    /\ ads.outcome.kind = "RuntimeError" =>
          /\ {"status", "request_id", "errors"} \subseteq DOMAIN ads.outcome.details
          /\ ("hint" \in DOMAIN ads.outcome.details)
                <=> (ads.outcome.details.status = "PERMISSION_DENIED")

\* C25 witness: with the default five attempts every attempt failed with a
\* transient status: five calls, four sleeps, and the terminal error with the
\* request id and the sub-errors of the fifth failure.
C25_Witness ==
    /\ EveryAttemptTransient
    /\ ads.attempts = DefaultAttempts
    /\ Len(AdsCalls) = 5 /\ Len(AdsSleeps) = 4
    /\ ads.outcome.kind = "RuntimeError"
    /\ ads.outcome.details.status = "UNAVAILABLE"
    /\ ads.outcome.details.request_id = "req-1"
    /\ ads.outcome.details.errors = SubErrors

\* The whole seconds of a sleep.
WholeSeconds(ev) == ev.tenths \div 10

\* 2, 4, 8, 16: the whole seconds after the failed attempts 1..4.
DoublingSeconds == <<2, 4, 8, 16>>

LocalErrors == {"ValueError", "TypeError"}

\* C27: an exception of fn that is not a GoogleAdsException is never retried:
\* it leaves _ads_call as it was raised, right after the call that raised it,
\* with no sleep and no further call, and is not turned into the RuntimeError
\* of an upstream failure (raised by the first attempt: exactly one call and
\* no sleep).
C27_LocalErrorPropagates ==
    \A j \in 1..Len(ads.events) :
        (ads.events[j].ev = "call" /\ ads.events[j].did \in LocalErrors) =>
            /\ j = Len(ads.events)
            /\ ads.pc = "raised"
            /\ ads.outcome = [kind |-> "propagated", class |-> ads.events[j].did]
            /\ ads.last = OtherException(ads.events[j].did)
            /\ Len(AdsSleeps) = ads.events[j].i - 1
            /\ Len(AdsCalls) = ads.events[j].i
            /\ ads.events[j].i = 1 => ads.events = <<CallEvent(1, ads.events[j].did)>>

\* C27 witness: the first attempt of a call with five attempts raised a
\* ValueError, which left _ads_call unchanged after that one call.
C27_Witness ==
    /\ ads.pc = "raised"
    /\ ads.attempts = DefaultAttempts
    /\ ads.events = <<CallEvent(1, "ValueError")>>
    /\ ads.outcome = [kind |-> "propagated", class |-> "ValueError"]

\* The latest resolution was answered before the tables were looked at: the
\* input was empty or its digits were taken for an id.
AnsweredBeforeTables ==
    \/ Len(rreq.name) = 0
    \/ LooksLikeId(DigitsOf(Strip(rreq.name)))

\* The normalized input of the latest resolution.
ResolvedKey == _norm_key(Strip(rreq.name))

\* C28: the steps of a resolution apply in order and the first match wins. A
\* key of the static table is answered with the static id whatever the cache
\* holds, with no upstream hierarchy lookup and no change of the cache; the
\* cache answers (and is refreshed) only when the static table has no such
\* key; the fuzzy match and not-found come only when neither has it.
C28_StepsInOrder ==
    (rres.step # "idle" /\ ~AnsweredBeforeTables) =>
        /\ HasKey(staticLookup, ResolvedKey) =>
              /\ rres.step = "static"
              /\ rres.result = Entry(staticLookup, ResolvedKey).id
              /\ ~rres.issued
              /\ accountCache = rreq.cache
        /\ (~HasKey(staticLookup, ResolvedKey) /\ HasKey(accountCache, ResolvedKey)) =>
              /\ rres.step = "cache"
              /\ rres.result = Entry(accountCache, ResolvedKey).id
        /\ rres.step = "cache" => ~HasKey(staticLookup, ResolvedKey)
        /\ rres.issued => ~HasKey(staticLookup, ResolvedKey)
        /\ rres.step \in {"fuzzy", "none"} =>
              ~HasKey(staticLookup, ResolvedKey) /\ ~HasKey(accountCache, ResolvedKey)

\* C28 witness: "Acme Corp" was resolved while the cache held another id for
\* the same key; the static id was returned and nothing was looked up.
C28_Witness ==
    /\ rres.step = "static"
    /\ rreq.name = "Acme Corp"
    /\ HasKey(rreq.cache, "acmecorp")
    /\ Entry(rreq.cache, "acmecorp").id = "5556667777"
    /\ rres.result = "1111111111"
    /\ ~rres.issued
    /\ accountCache = rreq.cache

\* The candidates of the fuzzy step of the latest resolution and their
\* similarity to the normalized input.
FuzzyCandidates == Keys(staticLookup) \cup Keys(accountCache)
Similarity(x) == Ratio(x, ResolvedKey)

\* No candidate is more similar to the input than x.
AtTopScore(x) ==
    \A y \in FuzzyCandidates :
        Similarity(y)[1] * Similarity(x)[2] <= Similarity(x)[1] * Similarity(y)[2]
TopCandidates == {x \in FuzzyCandidates : AtTopScore(x)}

\* The id a candidate stands for: the static one first.
CandidateId(x) ==
    IF HasKey(staticLookup, x) THEN Entry(staticLookup, x).id ELSE Entry(accountCache, x).id

\* The latest resolution reached the fuzzy step.
ReachedFuzzy == rres.step \in {"fuzzy", "none"}

\* C29: the fuzzy step accepts a candidate only when exactly one candidate
\* attains the top similarity and that similarity is at least 0.8; when
\* candidates with different ids tie at the top, the resolution is not-found.
C29_FuzzyNeedsUniqueTop ==
    ReachedFuzzy =>
        /\ rres.result # None =>
              /\ Cardinality(TopCandidates) = 1
              /\ \A x \in TopCandidates :
                    ClearsCutoff(Similarity(x)) /\ rres.result = CandidateId(x)
        /\ (\E x \in TopCandidates, y \in TopCandidates : CandidateId(x) # CandidateId(y))
              => rres.result = None

\* The part of C29 that the fuzzy step keeps: what it returns is the id of a
\* candidate at the top similarity, which is at least 0.8.
FuzzyAnswerIsATopCandidate ==
    (ReachedFuzzy /\ rres.result # None) =>
        \E x \in TopCandidates : ClearsCutoff(Similarity(x)) /\ rres.result = CandidateId(x)

\* C30: once the account cache is non-empty, no resolution, whatever its
\* input and root, changes the cache or issues another upstream hierarchy
\* lookup.
C30_FilledCacheIsKept ==
    [][accountCache # {} =>
          /\ accountCache' = accountCache
          /\ lookups' = lookups
          /\ ~rres'.issued /\ ~rres'.logged]_vars

\* C30 witness: a resolution with a root, of a name that neither table holds,
\* ran on a filled cache; it reached the fuzzy step, asked nothing and left
\* the cache as it was.
C30_Witness ==
    /\ rres.step # "idle"
    /\ rreq.cache # {}
    /\ rreq.name = "nobody"
    /\ rreq.root = "900-015-9936"
    /\ rres.step = "none"
    /\ ~rres.issued
    /\ lookups < MaxLookups
    /\ accountCache = rreq.cache

\* C31: in one process the upstream hierarchy lookup is issued at most once
\* over any sequence of resolutions, also when the first lookup failed or
\* returned no accounts.
C31_LookupIssuedAtMostOnce == lookups <= 1

\* The part of C31 that the resolver keeps: a lookup is issued only while the
\* cache is empty, so a lookup that filled the cache is the last one.
LookupOnlyOnEmptyCache ==
    (rres.step # "idle" /\ rres.issued) => rreq.cache = {}

\* The refresh of the latest resolution did not complete: the client could not
\* be built, the query failed, or the iteration of the rows failed part-way.
RefreshNotCompleted ==
    /\ rres.step # "idle"
    /\ rreq.hier.kind \in {"NoClient", "QueryFails", "IterFails"}

\* C33: a refresh that fails at any point before completion (client
\* construction, the query, the iteration of the rows) leaves the account
\* cache exactly as it was before it began; the cache is replaced only by a
\* refresh that built the complete result, and then by exactly that result.
C33_FailedRefreshKeepsCache ==
    /\ RefreshNotCompleted =>
          /\ rres.logged
          /\ rres.cache = rreq.cache
          /\ accountCache = rreq.cache
    /\ (rres.step # "idle" /\ accountCache # rreq.cache) =>
          /\ rreq.hier.kind = "rows"
          /\ accountCache = BuildLocal(rreq.hier.rows, {})

\* C33 witness: the iteration of the rows failed after the row of Globex was
\* read; the failure was logged and the cache is as it was.
C33_Witness ==
    /\ rres.step # "idle"
    /\ rreq.hier = [kind |-> "IterFails", rows |-> <<GlobexRow>>]
    /\ rreq.name = "Globex"
    /\ rres.issued /\ rres.logged
    /\ rres.result = None
    /\ accountCache = rreq.cache

(***************************************************************************)
(* Retry harness for every value of attempts, zero and negative included   *)
(***************************************************************************)
AnyAttemptsInputs == AttemptsInputs \cup {0, -1}

\* _ads_call(fn, attempts) is entered with any integer: i = 1.
AdsCallEnterAny ==
    /\ ads.pc = "idle"
    /\ \E n \in AnyAttemptsInputs :
          ads' = [IdleAds EXCEPT !.pc = "loop", !.attempts = n, !.i = 1]
    /\ UNCHANGED <<config, exchange, process, nreq, nres, rreq, rres, srv>>

\* The for loop has no iteration left.
AdsLoopEnds ==
    /\ ads.pc = "loop"
    /\ ads.i > ads.attempts
    /\ ads' = AfterLoopEnds(ads)
    /\ UNCHANGED <<config, exchange, process, nreq, nres, rreq, rres, srv>>

NextRetryAny == AdsCallEnterAny \/ AdsAttemptReturns \/ AdsAttemptRaises \/ AdsLoopEnds

SpecRetryAny == InitRetry /\ [][NextRetryAny]_vars

\* _ads_call returned the value of a call of fn.
ReturnedWhatFnReturned ==
    /\ Len(AdsCalls) >= 1
    /\ ads.events[Len(ads.events)] = CallEvent(Len(AdsCalls), "ok")
    /\ ads.outcome = [kind |-> "return", value |-> "rows"]

PositiveAttemptsCallFn ==
    (ads.attempts >= 1 /\ ads.pc \in {"returned", "raised"}) =>
        /\ Len(AdsCalls) >= 1
        /\ ads.pc = "returned" => ReturnedWhatFnReturned

\* The input of the latest resolution is not empty but has no letter or digit.
EmptyKeyInput ==
    /\ rres.step # "idle"
    /\ Len(rreq.name) > 0
    /\ Len(ResolvedKey) = 0

\* C38: an input whose normalized key is empty never resolves to an
\* identifier, whatever names the hierarchy and the static table hold.
C38_EmptyKeyNeverResolves ==
    EmptyKeyInput => rres.result = None

\* The part of C38 that the resolver keeps: an input with an empty key is
\* answered only by an entry whose own key is empty, never by the fuzzy match.
EmptyKeyMatchesOnlyEmptyKey ==
    (EmptyKeyInput /\ rres.result # None) =>
        /\ rres.step \in {"static", "cache"}
        /\ HasKey(staticLookup, "") \/ HasKey(accountCache, "")

\* The root account a resolution is scoped to: root_mcc or LOGIN_CUSTOMER_ID,
\* as the upstream is asked for it.
ScopedRoot(req) ==
    RemoveDashes(IF req.root # None /\ Len(req.root) > 0 THEN req.root ELSE loginCustomerId)

\* The latest resolution filled the cache from the hierarchy of its root.
FilledCache == rres.step # "idle" /\ rres.issued /\ accountCache # {}

\* The id returned by the latest resolution comes from the cache.
AnswerFromCache ==
    /\ rres.step \in {"cache", "fuzzy"}
    /\ rres.result # None
    /\ \E e \in accountCache : e.id = rres.result
    /\ \A e \in staticLookup : e.id # rres.result

\* C37: a resolution scoped to root B returns from the cache only ids of B's
\* hierarchy: when a resolution filled the cache under root A, the next one is
\* answered from those entries only if it is scoped to A as well.
C37_CacheAnswersOnlyItsRoot ==
    [][(FilledCache /\ AnswerFromCache') => ScopedRoot(rreq') = ScopedRoot(rreq)]_vars

\* The single envelope of the request is a JSON object with an id key.
HasIdKey(e) == e.obj /\ e.id.t # "absent"

\* C35: every response produced for an envelope that has an id carries
\* exactly that id (0, the empty string and an explicit null included), for
\* every method, the initialized acknowledgements included, and on every
\* error path.
C35_ResponseCarriesRequestId ==
    (AfterReturn /\ body.kind = "single" /\ HasIdKey(Env))
        => \A r \in ResponseObjects : r.id = Env.id

\* The envelope is an initialized acknowledgement.
IsAck(e) == IsMethod(e, "initialized") \/ IsMethod(e, "notifications/initialized")

\* The part of C35 that the handler keeps: outside the acknowledgements, every
\* response that _handle_single_rpc returns for an envelope with an id carries
\* that id; an acknowledgement carries it when the id is truthy.
IdKeptWhenHandlerReturns ==
    (AfterReturn /\ body.kind = "single" /\ HasIdKey(Env) /\ ~ExceptionEscaped
        /\ (IsAck(Env) => Truthy(Env.id)))
        => /\ ResponseObjects # {}
           /\ \A r \in ResponseObjects : r.id = Env.id

(***************************************************************************)
(* The event loop: requests of POST / served by one process                *)
(***************************************************************************)
MaxTasks == 2

TaskIds == 1..MaxTasks

\* A request that has not arrived. `i` is the attempt of the running
\* _ads_call (0 when none runs), `local` the mapping built by the running
\* _refresh_account_cache, `result` what the tool got from
\* _resolve_customer_id.
NewTask == [pc |-> "new", tool |-> "", name |-> "", i |-> 0, local |-> {}, result |-> None]

\* The names the requests resolve, and the root account they all name.
ServeNames == {"Globex", "Acme Corp", "globexx", "nobody"}
ServeRoot == "900-015-9936"

\* The upstream answers every hierarchy query of a run the same way (hier);
\* before it answers it may fail with a transient status while _ads_call has
\* attempts left.
InitServe ==
    /\ supported = <<"2024-11-05">>
    /\ sharedKey = ""
    /\ isoBasic = TRUE
    /\ staticLookup \in {{}, StaticTable}
    /\ loginCustomerId = ""
    /\ accountCache = {}
    /\ lookups = 0
    /\ IdleExchange
    /\ nreq = None
    /\ nres = "idle"
    /\ rreq = NoCall
    /\ rres = NotResolved
    /\ ads = IdleAds
    /\ \E h \in HierOutcomes :
          srv = [loop |-> 0, root |-> ServeRoot, hier |-> h,
                 tasks |-> [t \in TaskIds |-> NewTask]]

\* Mutant: every request runs on a thread of its own.
CanEnterThreaded(s, t) == s.tasks[t].pc = "parsed"

\* rpc() is a coroutine of the one event loop and calls _handle_single_rpc
\* as a plain function: a request starts to be handled only when no other
\* request is inside its handler.
CanEnter(s, t) == s.loop = 0 /\ s.tasks[t].pc = "parsed"

\* _ACCOUNT_CACHE.update(local)
Updated(cache, local) == {e \in cache : ~HasKey(local, e.key)} \cup local

\* The steps of _resolve_customer_id that do not touch the upstream, run on
\* the cache as it is.
WithoutRefresh(name, cache) ==
    _resolve_customer_id(name, None, staticLookup, "", cache, Unasked)

ServeUnchanged == UNCHANGED <<config, exchange, nreq, nres, rreq, rres, ads>>

\* payload = await request.json(): the request arrives; the coroutine yields.
Receive(t) ==
    /\ srv.tasks[t].pc = "new"
    /\ \E tool \in {"resolve_customer", "ping"} :
          \E name \in IF tool = "ping" THEN {""} ELSE ServeNames :
              srv' = [srv EXCEPT !.tasks[t] =
                         [NewTask EXCEPT !.pc = "parsed", !.tool = tool, !.name = name]]
    /\ UNCHANGED process
    /\ ServeUnchanged

\* _handle_single_rpc(payload, ...) is called.
Enter(t) ==
    /\ CanEnter(srv, t)
    /\ srv' = [srv EXCEPT !.loop = t,
                          !.tasks[t].pc = IF srv.tasks[t].tool = "ping" THEN "answered"
                                          ELSE "resolving",
                          !.tasks[t].result = IF srv.tasks[t].tool = "ping" THEN "pong"
                                              ELSE None]
    /\ UNCHANGED process
    /\ ServeUnchanged

\* _resolve_customer_id up to the static table (lines 276-287).
ResolveEarly(t) ==
    /\ srv.tasks[t].pc = "resolving"
    /\ \E r \in {WithoutRefresh(srv.tasks[t].name, {})} :
          srv' = IF r.step \in {"empty", "id", "static"}
                 THEN [srv EXCEPT !.tasks[t].pc = "answered", !.tasks[t].result = r.result]
                 ELSE [srv EXCEPT !.tasks[t].pc = "check"]
    /\ UNCHANGED process
    /\ ServeUnchanged

\* if not _ACCOUNT_CACHE and (root_mcc or LOGIN_CUSTOMER_ID) (line 290).
CheckCache(t) ==
    /\ srv.tasks[t].pc = "check"
    /\ srv' = [srv EXCEPT !.tasks[t].pc = IF NeedsRefresh(accountCache, srv.root)
                                          THEN "client" ELSE "lookup"]
    /\ UNCHANGED process
    /\ ServeUnchanged

\* _new_ads_client and the first svc.search of _ads_call (lines 248-261).
StartQuery(t) ==
    /\ srv.tasks[t].pc = "client"
    /\ IF srv.hier.kind = "NoClient"
       THEN /\ srv' = [srv EXCEPT !.tasks[t].pc = "lookup"]
            /\ UNCHANGED process
       ELSE /\ srv' = [srv EXCEPT !.tasks[t].pc = "upstream", !.tasks[t].i = 1]
            /\ lookups' = lookups + 1
            /\ UNCHANGED accountCache
    /\ ServeUnchanged

\* svc.search fails with a transient status while attempts are left:
\* time.sleep (line 349).
QueryFailsTransient(t) ==
    /\ srv.tasks[t].pc = "upstream"
    /\ AttemptsLeft([i |-> srv.tasks[t].i, attempts |-> DefaultAttempts])
    /\ srv' = [srv EXCEPT !.tasks[t].pc = "sleeping"]
    /\ UNCHANGED process
    /\ ServeUnchanged

\* time.sleep returns: the next attempt (line 350).
Wake(t) ==
    /\ srv.tasks[t].pc = "sleeping"
    /\ srv' = [srv EXCEPT !.tasks[t].pc = "upstream", !.tasks[t].i = srv.tasks[t].i + 1]
    /\ UNCHANGED process
    /\ ServeUnchanged

\* The upstream answers: the rows arrive and `local` is built (lines
\* 262-267), or the query or the iteration fails and the except clause logs
\* (lines 271-272).
QueryAnswers(t) ==
    /\ srv.tasks[t].pc = "upstream"
    /\ srv' = IF srv.hier.kind = "rows"
              THEN [srv EXCEPT !.tasks[t].pc = "built", !.tasks[t].i = 0,
                               !.tasks[t].local = BuildLocal(srv.hier.rows, {})]
              ELSE [srv EXCEPT !.tasks[t].pc = "lookup", !.tasks[t].i = 0]
    /\ UNCHANGED process
    /\ ServeUnchanged

\* _ACCOUNT_CACHE.clear() (line 268).
ClearCache(t) ==
    /\ srv.tasks[t].pc = "built"
    /\ accountCache' = {}
    /\ srv' = [srv EXCEPT !.tasks[t].pc = "cleared"]
    /\ UNCHANGED lookups
    /\ ServeUnchanged

\* _ACCOUNT_CACHE.update(local) (line 269); the function returns and its
\* locals are gone.
UpdateCache(t) ==
    /\ srv.tasks[t].pc = "cleared"
    /\ accountCache' = Updated(accountCache, srv.tasks[t].local)
    /\ srv' = [srv EXCEPT !.tasks[t].pc = "lookup", !.tasks[t].local = {}]
    /\ UNCHANGED lookups
    /\ ServeUnchanged

\* The cache test and the fuzzy match (lines 293-303), on the cache as it is.
LookUp(t) ==
    /\ srv.tasks[t].pc = "lookup"
    /\ \E r \in {WithoutRefresh(srv.tasks[t].name, accountCache)} :
          srv' = [srv EXCEPT !.tasks[t].pc = "answered", !.tasks[t].result = r.result]
    /\ UNCHANGED process
    /\ ServeUnchanged

\* _handle_single_rpc returns and rpc() returns the response.
Finish(t) ==
    /\ srv.tasks[t].pc = "answered"
    /\ srv' = [srv EXCEPT !.loop = 0, !.tasks[t].pc = "done"]
    /\ UNCHANGED process
    /\ ServeUnchanged

NextServe ==
    \E t \in TaskIds :
        \/ Receive(t)
        \/ Enter(t)
        \/ ResolveEarly(t)
        \/ CheckCache(t)
        \/ StartQuery(t)
        \/ QueryFailsTransient(t)
        \/ Wake(t)
        \/ QueryAnswers(t)
        \/ ClearCache(t)
        \/ UpdateCache(t)
        \/ LookUp(t)
        \/ Finish(t)

SpecServe == InitServe /\ [][NextServe]_vars

\* What a resolution of the name returns when it is the only request of the
\* process: _resolve_customer_id run in one piece on the empty cache.
AloneResult(name) ==
    _resolve_customer_id(name, srv.root, staticLookup, loginCustomerId, {}, srv.hier).result

\* The cache after one refresh of the empty cache.
SingleRefresh == _refresh_account_cache(srv.root, {}, srv.hier).cache

\* The request resolved a name and has been answered.
ResolvedTask(t) == srv.tasks[t].tool = "resolve_customer" /\ srv.tasks[t].pc \in {"answered", "done"}

AllDone == \A t \in TaskIds : srv.tasks[t].pc = "done"

\* C32: concurrent first-touch refreshes have no effect on the results: every
\* resolution returns what it returns when run alone (a name of the hierarchy
\* is never reported not-found because another request is between clearing
\* and refilling the cache), and the cache after all requests is the cache of
\* a single refresh; only the number of lookups differs.
C32_ConcurrentResolvesAsAlone ==
    /\ \A t \in TaskIds :
          ResolvedTask(t) => srv.tasks[t].result = AloneResult(srv.tasks[t].name)
    /\ accountCache \in {{}, SingleRefresh}
    /\ (AllDone /\ lookups > 0) => accountCache = SingleRefresh
    /\ lookups <= MaxTasks

\* C32 witness: two requests resolved "Globex" against the hierarchy that
\* holds it; the first refreshed the cache, the second arrived before the
\* first was handled and was answered from the cache; both got the id.
C32_Witness ==
    /\ AllDone
    /\ \A t \in TaskIds : srv.tasks[t].name = "Globex" /\ srv.tasks[t].result = "2223334444"
    /\ staticLookup = {}
    /\ lookups = 1
    /\ accountCache = SingleRefresh
    /\ HasKey(accountCache, "globex")

\* The request is suspended in the upstream call or in the backoff sleep of
\* _ads_call.
Suspended(t) == srv.tasks[t].pc \in {"upstream", "sleeping"}

\* C34: while one request is suspended in an upstream call or in a backoff
\* sleep, another request that has arrived can be handled: its handler can be
\* entered.
C34_SuspendedRequestBlocksNobody ==
    \A a \in TaskIds, b \in TaskIds :
        (Suspended(a) /\ srv.tasks[b].pc = "parsed") => CanEnter(srv, b)

\* What the event loop does instead: from the call of a request's handler to
\* its return no other request is inside its handler, and while a request is
\* suspended no step of another request is taken but its arrival.
HandlersRunOneAtATime ==
    [][\A a \in TaskIds :
          Suspended(a) =>
              /\ srv.loop = a
              /\ \A b \in TaskIds \ {a} :
                    \/ srv'.tasks[b] = srv.tasks[b]
                    \/ srv.tasks[b].pc = "new" /\ srv'.tasks[b].pc = "parsed"]_vars

====
